---- MODULE Spec2Model ----
(***************************************************************************)
(* Model of the image-rendition grouping engine of                         *)
(* src/src/ImageComparison.jsx: processInspectionData and its helpers.     *)
(*                                                                         *)
(* JavaScript values are tagged records, so that values of different       *)
(* types can be compared:                                                  *)
(*   Null        null / undefined / an absent field                        *)
(*   Str(s)      a string; s is the sequence of its characters             *)
(*   Num(n)      a (finite, integral) number                               *)
(*   NaN         the result of Number(x) for a non-numeric x               *)
(* Operators named after a JavaScript built-in (Trim, ToLowerCase,         *)
(* StartsWith, Includes, localeCompare, ToNumber) compute what the         *)
(* built-in computes on the characters of the model's alphabet.            *)
(***************************************************************************)
EXTENDS Integers, Sequences, FiniteSets, TLC

VARIABLES
    inspection,          \* the raw inspection handed to processInspectionData
    pc,                  \* "start" before the call, "done" after it returned
    rowsByKey,           \* local rowsByKey: rows in insertion order
    originalsByCamSide,  \* local originalsByCamSide: key -> original entry
    groups,              \* the returned list of comparison groups
    inspectionIds,       \* handleCSVUpload: the ids read from the uploaded file
    responses,           \* the upstream's answer to the k-th request
    requests,            \* the ids requested from the upstream so far
    fetchIndex,          \* handleCSVUpload: position of the fetch loop
    processedInspections,\* handleCSVUpload: local processedInspections
    uploadPc,            \* "idle", "fetching", "done" or "failed"
    inspections,         \* state: the loaded inspection set
    metrics,             \* state: tableA, tableD and validation
    currentInspectionIndex,  \* state
    currentComparisonIndex,  \* state
    activeView,          \* state
    loadMethod,          \* state
    error,               \* state: the error message, "" when none
    loading,             \* state: the loading flag
    campaignDoc,         \* the shared store's campaign document, Null when none
    user,                \* state: the signed-in user, Null when signed out
    votesStore,          \* the shared store's votes collection: id -> document
    votes,               \* state: the aggregated votes, one entry per comparisonId
    userVotes,           \* state: the user's own vote per comparison and version
    voters,              \* history: <<uid, comparisonId>> -> the vote last written and not removed
    attempt              \* history: the last call of handleVote or handleUnvote

processVars == <<inspection, pc, rowsByKey, originalsByCamSide, groups>>

uploadVars == <<inspectionIds, responses, requests, fetchIndex, processedInspections, uploadPc>>

appVars == <<inspections, metrics, currentInspectionIndex, currentComparisonIndex, activeView, loadMethod, error, loading, campaignDoc>>

sessionVars == <<user, votesStore, votes, userVotes, voters, attempt>>

vars == <<processVars, uploadVars, appVars, sessionVars>>

----------------------------------------------------------------------------
(* JavaScript values *)

Null == [null |-> TRUE]
NaN == [nan |-> TRUE]
Str(s) == [str |-> s]
Num(n) == [num |-> n]

IsNull(v) == "null" \in DOMAIN v
IsStr(v) == "str" \in DOMAIN v
IsNum(v) == "num" \in DOMAIN v

\* x || y for a string-or-null x: null and "" are falsy
OrElse(v, d) == IF IsStr(v) /\ v.str # <<>> THEN v ELSE d

\* the characters of (v || "") for a string-or-null v
CharsOf(v) == IF IsStr(v) THEN v.str ELSE <<>>

----------------------------------------------------------------------------
(* String built-ins *)

IsSpace(c) == c = " "

RECURSIVE TrimStart(_)
TrimStart(s) ==
    IF s # <<>> /\ IsSpace(Head(s)) THEN TrimStart(Tail(s)) ELSE s

RECURSIVE TrimEnd(_)
TrimEnd(s) ==
    IF s # <<>> /\ IsSpace(s[Len(s)])
    THEN TrimEnd(SubSeq(s, 1, Len(s) - 1))
    ELSE s

Trim(s) == TrimEnd(TrimStart(s))

UpperCaseLetters ==
    <<"A","B","C","D","E","F","G","H","I","J","K","L","M",
      "N","O","P","Q","R","S","T","U","V","W","X","Y","Z">>

LowerCaseLetters ==
    <<"a","b","c","d","e","f","g","h","i","j","k","l","m",
      "n","o","p","q","r","s","t","u","v","w","x","y","z">>

Digits == <<"0","1","2","3","4","5","6","7","8","9">>

IndexIn(c, seq) ==
    IF \E i \in 1..Len(seq) : seq[i] = c
    THEN CHOOSE i \in 1..Len(seq) : seq[i] = c
    ELSE 0

\* upper-case letter -> lower-case letter
LowerOf ==
    [c \in {UpperCaseLetters[i] : i \in 1..26} |->
        LowerCaseLetters[IndexIn(c, UpperCaseLetters)]]

ToLowerChar(c) == IF c \in DOMAIN LowerOf THEN LowerOf[c] ELSE c

RECURSIVE ToLowerCase(_)
ToLowerCase(s) ==
    IF s = <<>> THEN <<>> ELSE <<ToLowerChar(Head(s))>> \o ToLowerCase(Tail(s))

StartsWith(s, p) == Len(s) >= Len(p) /\ SubSeq(s, 1, Len(p)) = p

Includes(s, p) ==
    \E i \in 0..(Len(s) - Len(p)) : SubSeq(s, i + 1, i + Len(p)) = p

\* Collation order of the characters of the model's alphabet: white space,
\* then punctuation, then digits, then letters (all strings compared by the
\* program are lower-cased first).
CollationOrder == <<" ", "_", "-", "/">> \o Digits \o LowerCaseLetters

RankOf ==
    [c \in {CollationOrder[i] : i \in 1..Len(CollationOrder)} |->
        IndexIn(c, CollationOrder)]

CollationRank(c) ==
    IF ToLowerChar(c) \in DOMAIN RankOf THEN RankOf[ToLowerChar(c)] ELSE 0

\* a.localeCompare(b): negative, zero or positive
RECURSIVE localeCompare(_, _)
localeCompare(a, b) ==
    IF a = <<>> /\ b = <<>> THEN 0
    ELSE IF a = <<>> THEN -1
    ELSE IF b = <<>> THEN 1
    ELSE IF CollationRank(Head(a)) < CollationRank(Head(b)) THEN -1
    ELSE IF CollationRank(Head(a)) > CollationRank(Head(b)) THEN 1
    ELSE localeCompare(Tail(a), Tail(b))

DigitValue == [c \in {Digits[i] : i \in 1..10} |-> IndexIn(c, Digits) - 1]

RECURSIVE ParseDigits(_, _)
ParseDigits(s, acc) ==
    IF s = <<>> THEN acc
    ELSE ParseDigits(Tail(s), 10 * acc + DigitValue[Head(s)])

\* Number(v): null is 0, a number is itself, a string is parsed
ToNumber(v) ==
    IF IsNum(v) THEN v
    ELSE IF IsNull(v) THEN Num(0)
    ELSE IF ~IsStr(v) THEN NaN
    ELSE LET t == Trim(v.str) IN
         IF t = <<>> THEN Num(0)
         ELSE IF \A i \in 1..Len(t) : t[i] \in DOMAIN DigitValue
              THEN Num(ParseDigits(t, 0))
              ELSE NaN

----------------------------------------------------------------------------
(* String constants of the program *)

sFront == <<"f","r","o","n","t">>
sRear == <<"r","e","a","r">>
sCenter == <<"c","e","n","t","e","r">>
sLeft == <<"l","e","f","t">>
sRight == <<"r","i","g","h","t">>
sSlimOverviewLower == <<"s","l","i","m","o","v","e","r","v","i","e","w">>
sZoomerLower == <<"z","o","o","m","e","r">>
sArtemis == <<"A","r","t","e","m","i","s">>
sNA == <<"N","/","A">>
sNaKey == <<"n","a">>
sEmpty == <<"E","m","p","t","y">>
sOriginal == <<"O","r","i","g","i","n","a","l">>
sOG == <<"O","G">>
sUndefined == <<"u","n","d","e","f","i","n","e","d">>
srcImages == "images"
srcHistory == "uvpaintHistoryImages"

----------------------------------------------------------------------------
(* Helpers *)

\* Number(b) || 0
NumberOrZero(v) == IF IsNum(ToNumber(v)) THEN ToNumber(v).num ELSE 0

RECURSIVE SumValues(_)
SumValues(vals) ==
    IF vals = <<>> THEN 0 ELSE NumberOrZero(Head(vals)) + SumValues(Tail(vals))

\* m is Null or [map |-> the sequence of the map's values]
sumActionMap(m) == IF "map" \in DOMAIN m THEN SumValues(m.map) ELSE 0

safeUrl(u) ==
    IF IsStr(u) /\ Trim(u.str) # <<>> THEN Str(Trim(u.str)) ELSE Null

safeText(v) ==
    IF IsStr(v) /\ Trim(v.str) # <<>> THEN Str(Trim(v.str)) ELSE Str(sNA)

pickOriginalUrl(obj) ==
    IF IsNull(obj) THEN Null
    ELSE LET candidates == <<obj.originalImage, obj.originalImageUrl,
                             obj.originalImageWithBackground,
                             obj.originalImageWithoutBackground>>
             found == {i \in 1..4 : ~IsNull(safeUrl(candidates[i]))}
         IN  IF found = {} THEN Null
             ELSE safeUrl(candidates[CHOOSE i \in found : \A j \in found : i <= j])

norm(s) == ToLowerCase(Trim(CharsOf(s)))

normCam(cam) ==
    LET c == norm(cam) IN
    IF StartsWith(c, sFront) THEN Str(sFront)
    ELSE IF StartsWith(c, sRear) THEN Str(sRear)
    ELSE IF StartsWith(c, sCenter) THEN Str(sCenter)
    ELSE IF c # <<>> THEN Str(c) ELSE Null

normSide(side) ==
    LET s == norm(side) IN
    IF StartsWith(s, sLeft) THEN Str(sLeft)
    ELSE IF StartsWith(s, sRight) THEN Str(sRight)
    ELSE IF StartsWith(s, sCenter) THEN Str(sCenter)
    ELSE IF s # <<>> THEN Str(s) ELSE Null

isSlimOverview(imageType) == norm(imageType) = sSlimOverviewLower
isZoomer(imageType) == Includes(norm(imageType), sZoomerLower)
isAllowedType(imageType) == isSlimOverview(imageType) \/ isZoomer(imageType)

isPublishedUvpaint(img) ==
    /\ ~IsNull(img)
    /\ img.isActive
    /\ IsStr(img.activeImage) /\ img.activeImage.str # <<>>
    /\ ~IsNull(img.pov)
    /\ img.imageType # Str(sArtemis)
    /\ isAllowedType(img.imageType)

\* a score that adds the 40 only when the candidate also has an active image
scoreCandidatePublishFlagged(c) ==
    LET hasActive == IsStr(c.activeImage) /\ c.activeImage.str # <<>>
        isActive == c.isActive /\ hasActive
        srcPriority == IF c.source = srcImages THEN 30
                       ELSE IF c.source = srcHistory THEN 10 ELSE 0
    IN  (IF hasActive THEN 100 ELSE 0) + (IF isActive THEN 40 ELSE 0) + srcPriority

scoreCandidate(c) ==
    LET hasActive == IsStr(c.activeImage) /\ c.activeImage.str # <<>>
        isActive == c.isActive
        srcPriority == IF c.source = srcImages THEN 30
                       ELSE IF c.source = srcHistory THEN 10 ELSE 0
    IN  (IF hasActive THEN 100 ELSE 0) + (IF isActive THEN 40 ELSE 0) + srcPriority

----------------------------------------------------------------------------
(* processInspectionData: grouping key and candidate extraction *)

typeOrder(bucketType) ==
    IF bucketType = "SlimOverview" THEN 0
    ELSE IF bucketType = "Zoomer" THEN 1 ELSE 999

\* a published flag that looks at the Latest slot only
isRowPublishedLatestOnly(renditionData) ==
    /\ ~IsNull(renditionData[2])
    /\ renditionData[2].isActive
    /\ ~IsNull(renditionData[2].activeImage)

isRowPublished(renditionData) ==
    \E i \in 1..2 :
        /\ ~IsNull(renditionData[i])
        /\ renditionData[i].isActive
        /\ ~IsNull(renditionData[i].activeImage)

\* a key that keeps the serial number
createPOVKeyWithSerial(bucketType, pov) ==
    LET cam == CharsOf(OrElse(normCam(pov.simulatedCamera), Str(sNaKey)))
        side == CharsOf(OrElse(normSide(pov.simulatedCameraSide), Str(sNaKey)))
    IN  <<bucketType, "_">> \o cam \o <<"_">> \o side
        \o <<"_", IF IsNum(pov.serialNumber)
                  THEN Digits[pov.serialNumber.num + 1] ELSE "null">>

\* the key is the character sequence of `${bucketType}_${cam}_${side}`; the
\* bucket name is kept as one element, the two names being "SlimOverview"
\* and "Zoomer", neither of which is a prefix of the other
createPOVKey(bucketType, pov) ==
    LET cam == CharsOf(OrElse(normCam(pov.simulatedCamera), Str(sNaKey)))
        side == CharsOf(OrElse(normSide(pov.simulatedCameraSide), Str(sNaKey)))
    IN  <<bucketType, "_">> \o cam \o <<"_">> \o side

bucketTypeOf(imageType) ==
    IF isSlimOverview(imageType) THEN "SlimOverview"
    ELSE IF isZoomer(imageType) THEN "Zoomer"
    ELSE "none"

RowIndex(rows, key) ==
    IF \E i \in 1..Len(rows) : rows[i].key = key
    THEN CHOOSE i \in 1..Len(rows) : rows[i].key = key
    ELSE 0

ensureRow(rows, key, bucketType, pov) ==
    IF RowIndex(rows, key) > 0 THEN rows
    ELSE Append(rows, [key |-> key, bucketType |-> bucketType, pov |-> pov,
                       renditions |-> <<>>, sourcesSet |-> <<>>])

SetAdd(seq, x) ==
    IF \E i \in 1..Len(seq) : seq[i] = x THEN seq ELSE Append(seq, x)

\* a putCandidate that files a non-numeric rendition under 0
putCandidateNonNumericAsZero(rows, a) ==
    IF IsNull(a.pov) THEN rows
    ELSE IF ~isAllowedType(a.imageType) THEN rows
    ELSE IF bucketTypeOf(a.imageType) = "none" THEN rows
    ELSE
    LET bucketType == bucketTypeOf(a.imageType)
        key == createPOVKey(bucketType, a.pov)
        rows1 == ensureRow(rows, key, bucketType, a.pov)
        k == RowIndex(rows1, key)
        row == rows1[k]
        n == IF IsNum(ToNumber(a.rendition)) THEN ToNumber(a.rendition) ELSE Num(0)
    IN  IF ~IsNum(n) THEN rows1
        ELSE
        LET rNum == n.num
            candidate == [imageType |-> OrElse(a.imageType, Str(sNA)),
                          bucketType |-> bucketType,
                          status |-> OrElse(a.status, Str(sNA)),
                          activeImage |-> safeUrl(a.activeImage),
                          originalImage |-> safeUrl(a.originalImage),
                          image |-> safeUrl(a.activeImage),
                          source |-> a.source,
                          actions |-> a.actions,
                          isActive |-> a.isActive,
                          pov |-> a.pov]
            old == IF rNum \in DOMAIN row.renditions
                   THEN row.renditions[rNum] ELSE <<>>
            renditions1 == [r \in DOMAIN row.renditions \cup {rNum} |->
                                IF r = rNum THEN Append(old, candidate)
                                ELSE row.renditions[r]]
        IN  [rows1 EXCEPT ![k] =
                [row EXCEPT !.renditions = renditions1,
                            !.sourcesSet = SetAdd(row.sourcesSet, a.source)]]

\* a: the argument object of putCandidate
putCandidate(rows, a) ==
    IF IsNull(a.pov) THEN rows
    ELSE IF ~isAllowedType(a.imageType) THEN rows
    ELSE IF bucketTypeOf(a.imageType) = "none" THEN rows
    ELSE
    LET bucketType == bucketTypeOf(a.imageType)
        key == createPOVKey(bucketType, a.pov)
        rows1 == ensureRow(rows, key, bucketType, a.pov)
        k == RowIndex(rows1, key)
        row == rows1[k]
        n == ToNumber(a.rendition)
    IN  IF ~IsNum(n) THEN rows1
        ELSE
        LET rNum == n.num
            candidate == [imageType |-> OrElse(a.imageType, Str(sNA)),
                          bucketType |-> bucketType,
                          status |-> OrElse(a.status, Str(sNA)),
                          activeImage |-> safeUrl(a.activeImage),
                          originalImage |-> safeUrl(a.originalImage),
                          image |-> safeUrl(a.activeImage),
                          source |-> a.source,
                          actions |-> a.actions,
                          isActive |-> a.isActive,
                          pov |-> a.pov]
            old == IF rNum \in DOMAIN row.renditions
                   THEN row.renditions[rNum] ELSE <<>>
            renditions1 == [r \in DOMAIN row.renditions \cup {rNum} |->
                                IF r = rNum THEN Append(old, candidate)
                                ELSE row.renditions[r]]
        IN  [rows1 EXCEPT ![k] =
                [row EXCEPT !.renditions = renditions1,
                            !.sourcesSet = SetAdd(row.sourcesSet, a.source)]]

DefaultRenditionImages == 3
DefaultRenditionHistory == 1

\* one iteration of the forEach over a source collection
extractEntry(rows, img, source, defaultRendition) ==
    IF IsNull(img) THEN rows
    ELSE IF img.imageType = Str(sArtemis) THEN rows
    ELSE IF IsNull(img.pov) THEN rows
    ELSE IF ~isAllowedType(img.imageType) THEN rows
    ELSE putCandidate(rows,
            [imageType |-> img.imageType,
             pov |-> img.pov,
             rendition |-> IF IsNull(img.rendition)
                           THEN Num(defaultRendition) ELSE img.rendition,
             activeImage |-> img.activeImage,
             status |-> img.status,
             source |-> source,
             actions |-> IF IsNull(img.actionsCounterMap) THEN 0
                         ELSE sumActionMap(img.actionsCounterMap),
             originalImage |-> pickOriginalUrl(img),
             isActive |-> img.isActive])

RECURSIVE extractAll(_, _, _, _)
extractAll(rows, imgs, source, defaultRendition) ==
    IF imgs = <<>> THEN rows
    ELSE extractAll(extractEntry(rows, Head(imgs), source, defaultRendition),
                    Tail(imgs), source, defaultRendition)

\* loops that give both collections the default of the current pipeline
extractRowsSameDefault(uvpaintData) ==
    extractAll(
        extractAll(<<>>, uvpaintData.images, srcImages, DefaultRenditionImages),
        uvpaintData.uvpaintHistoryImages, srcHistory, DefaultRenditionImages)

\* the two extraction loops: images first, then uvpaintHistoryImages
extractRows(uvpaintData) ==
    extractAll(
        extractAll(<<>>, uvpaintData.images, srcImages, DefaultRenditionImages),
        uvpaintData.uvpaintHistoryImages, srcHistory, DefaultRenditionHistory)

----------------------------------------------------------------------------
(* processInspectionData: the index of original images *)

originalPriority(sourceName) ==
    IF sourceName = srcImages THEN 30
    ELSE IF sourceName = srcHistory THEN 10 ELSE 0

camSideKeyOf(cam, side) == cam.str \o <<"_">> \o side.str

\* an index in which a later entry of equal priority replaces an earlier one
considerOriginalLastWins(index, img, sourceName) ==
    IF IsNull(img) THEN index
    ELSE IF IsNull(img.pov) THEN index
    ELSE IF ~isSlimOverview(img.imageType) THEN index
    ELSE
    LET cam == normCam(img.pov.simulatedCamera)
        side == normSide(img.pov.simulatedCameraSide)
    IN  IF IsNull(cam) \/ IsNull(side) THEN index
        ELSE
        LET key == camSideKeyOf(cam, side)
            url == IF ~IsNull(safeUrl(img.originalImage))
                   THEN safeUrl(img.originalImage)
                   ELSE safeUrl(pickOriginalUrl(img))
            pr == originalPriority(sourceName)
        IN  IF IsNull(url) THEN index
            ELSE IF key \notin DOMAIN index \/ pr >= index[key].priority
            THEN [k \in DOMAIN index \cup {key} |->
                    IF k = key
                    THEN [url |-> url, source |-> sourceName,
                          priority |-> pr, obj |-> img]
                    ELSE index[k]]
            ELSE index

considerOriginal(index, img, sourceName) ==
    IF IsNull(img) THEN index
    ELSE IF IsNull(img.pov) THEN index
    ELSE IF ~isSlimOverview(img.imageType) THEN index
    ELSE
    LET cam == normCam(img.pov.simulatedCamera)
        side == normSide(img.pov.simulatedCameraSide)
    IN  IF IsNull(cam) \/ IsNull(side) THEN index
        ELSE
        LET key == camSideKeyOf(cam, side)
            url == IF ~IsNull(safeUrl(img.originalImage))
                   THEN safeUrl(img.originalImage)
                   ELSE safeUrl(pickOriginalUrl(img))
            pr == originalPriority(sourceName)
        IN  IF IsNull(url) THEN index
            ELSE IF key \notin DOMAIN index \/ pr > index[key].priority
            THEN [k \in DOMAIN index \cup {key} |->
                    IF k = key
                    THEN [url |-> url, source |-> sourceName,
                          priority |-> pr, obj |-> img]
                    ELSE index[k]]
            ELSE index

RECURSIVE considerAll(_, _, _)
considerAll(index, imgs, sourceName) ==
    IF imgs = <<>> THEN index
    ELSE considerAll(considerOriginal(index, Head(imgs), sourceName),
                     Tail(imgs), sourceName)

indexOriginals(uvpaintData) ==
    considerAll(considerAll(<<>>, uvpaintData.images, srcImages),
                uvpaintData.uvpaintHistoryImages, srcHistory)

----------------------------------------------------------------------------
(* processInspectionData: building and ordering the comparison groups *)

MaxOf(S) == CHOOSE x \in S : \A y \in S : y <= x

\* the numbers of S in ascending order
RECURSIVE SortAscending(_)
SortAscending(S) ==
    IF S = {} THEN <<>>
    ELSE SortAscending(S \ {MaxOf(S)}) \o <<MaxOf(S)>>

\* the numbers of S in descending order
RECURSIVE SortDescending(_)
SortDescending(S) ==
    IF S = {} THEN <<>>
    ELSE <<MaxOf(S)>> \o SortDescending(S \ {MaxOf(S)})

\* an insertion that puts c before the elements of equal score
RECURSIVE insertByScoreUnstable(_, _)
insertByScoreUnstable(sorted, c) ==
    IF sorted = <<>> THEN <<c>>
    ELSE IF scoreCandidate(c) - scoreCandidate(Head(sorted)) >= 0
         THEN <<c>> \o sorted
         ELSE <<Head(sorted)>> \o insertByScoreUnstable(Tail(sorted), c)

\* insertion of c into a list sorted by descending score, after the
\* elements that do not compare greater than it (Array.prototype.sort is
\* stable)
RECURSIVE insertByScore(_, _)
insertByScore(sorted, c) ==
    IF sorted = <<>> THEN <<c>>
    ELSE IF scoreCandidate(c) - scoreCandidate(Head(sorted)) > 0
         THEN <<c>> \o sorted
         ELSE <<Head(sorted)>> \o insertByScore(Tail(sorted), c)

RECURSIVE sortByScore(_, _)
sortByScore(sorted, arr) ==
    IF arr = <<>> THEN sorted
    ELSE sortByScore(insertByScore(sorted, Head(arr)), Tail(arr))

pickBestAt(row, rNum) ==
    LET arr == IF rNum \in DOMAIN row.renditions
               THEN row.renditions[rNum] ELSE <<>>
    IN  IF arr = <<>> THEN Null ELSE Head(sortByScore(<<>>, arr))

\* v?.f for the candidate fields read by the group builder
FieldOf(c, f) == IF IsNull(c) THEN Null ELSE c[f]

cardInfoOf(c) ==
    IF IsNull(c) THEN Null
    ELSE [imageType |-> safeText(c.imageType),
          status |-> safeText(c.status),
          originalImage |-> safeText(c.originalImage),
          activeImage |-> safeText(c.activeImage)]

renditionDataOf(c) ==
    IF IsNull(c) THEN Null
    ELSE [imageType |-> c.imageType, isActive |-> c.isActive,
          activeImage |-> c.activeImage]

\* `${inspection.inspectionId}` : an absent id prints as "undefined"
TemplateOf(v) == IF IsStr(v) THEN v.str ELSE sUndefined

\* a lookup that serves the rows of the SlimOverview bucket only
originalEntryOfSameBucket(index, row) ==
    LET cam == normCam(row.pov.simulatedCamera)
        side == normSide(row.pov.simulatedCameraSide)
        camSideKey == IF ~IsNull(cam) /\ ~IsNull(side)
                      THEN Str(camSideKeyOf(cam, side)) ELSE Null
    IN  IF /\ row.bucketType = "SlimOverview"
           /\ ~IsNull(camSideKey) /\ camSideKey.str \in DOMAIN index
        THEN index[camSideKey.str] ELSE Null

\* the index entry a row's Original slot is taken from, or Null
originalEntryOf(index, row) ==
    LET cam == normCam(row.pov.simulatedCamera)
        side == normSide(row.pov.simulatedCameraSide)
        camSideKey == IF ~IsNull(cam) /\ ~IsNull(side)
                      THEN Str(camSideKeyOf(cam, side)) ELSE Null
    IN  IF ~IsNull(camSideKey) /\ camSideKey.str \in DOMAIN index
        THEN index[camSideKey.str] ELSE Null

\* the group built from one row that has at least one rendition
buildGroup(insp, index, row) ==
    LET renditionNums == SortDescending(DOMAIN row.renditions)
        latestR == renditionNums[1]
        prevR == IF Len(renditionNums) >= 2 THEN Num(renditionNums[2]) ELSE Null
        latest == pickBestAt(row, latestR)
        prev == IF ~IsNull(prevR) THEN pickBestAt(row, prevR.num) ELSE Null
        cam == normCam(row.pov.simulatedCamera)
        side == normSide(row.pov.simulatedCameraSide)
        camSideKey == IF ~IsNull(cam) /\ ~IsNull(side)
                      THEN Str(camSideKeyOf(cam, side)) ELSE Null
        originalEntry == originalEntryOf(index, row)
        originalUrl == FieldOf(originalEntry, "url")
        originalFrom == IF IsNull(originalEntry) THEN sNA
                        ELSE <<originalEntry.source>>
        originalObj == FieldOf(originalEntry, "obj")
        cameraLabel == Trim(CharsOf(OrElse(row.pov.simulatedCamera, Str(sNA)))
                            \o <<" ">> \o CharsOf(row.pov.simulatedCameraSide))
        renditionData == <<renditionDataOf(prev), renditionDataOf(latest), Null>>
        emptyOrNA == IF ~IsNull(prevR) THEN Str(sNA) ELSE Str(sEmpty)
    IN  [id |-> TemplateOf(insp.inspectionId) \o <<"_">> \o row.key,
         name |-> cameraLabel \o <<" ", "(", row.bucketType, ")">>,
         sortKey |-> [typeOrder |-> typeOrder(row.bucketType),
                      cam |-> ToLowerCase(CharsOf(cam)),
                      side |-> ToLowerCase(CharsOf(side))],
         images |-> <<safeUrl(FieldOf(prev, "image")),
                      safeUrl(FieldOf(latest, "image")),
                      safeUrl(originalUrl)>>,
         metadata |->
            [inspectionId |-> insp.inspectionId,
             vehicle |-> insp.vehicleInfo,
             pov |-> row.pov,
             bucketType |-> row.bucketType,
             renditions |-> <<prevR, Num(latestR),
                              IF ~IsNull(originalUrl) THEN Str(sOG) ELSE Null>>,
             statuses |-> <<OrElse(FieldOf(prev, "status"), emptyOrNA),
                            OrElse(FieldOf(latest, "status"), Str(sNA)),
                            IF ~IsNull(originalUrl)
                            THEN Str(sOriginal) ELSE Str(sEmpty)>>,
             sources |-> <<IF IsNull(prev) THEN emptyOrNA ELSE Str(<<prev.source>>),
                           IF IsNull(latest) THEN Str(sNA)
                           ELSE Str(<<latest.source>>),
                           IF ~IsNull(originalUrl)
                           THEN Str(<<"SlimOverview_original:">> \o originalFrom)
                           ELSE Str(sEmpty)>>,
             actions |-> <<IF IsNull(prev) THEN Str(sNA) ELSE Num(prev.actions),
                           IF IsNull(latest) THEN Str(sNA) ELSE Num(latest.actions),
                           Str(sNA)>>,
             totalVersions |-> Len(renditionNums),
             povSources |-> row.sourcesSet,
             cardInfo |-> <<cardInfoOf(prev), cardInfoOf(latest),
                            cardInfoOf(originalObj)>>,
             renditionData |-> renditionData,
             groupKey |-> row.key,
             camSideKey |-> OrElse(camSideKey, Str(sNA)),
             published |-> isRowPublished(renditionData)]]

\* Object.entries(rowsByKey).forEach: rows without a rendition are skipped
RECURSIVE buildGroups(_, _, _)
buildGroups(insp, index, rows) ==
    IF rows = <<>> THEN <<>>
    ELSE IF DOMAIN Head(rows).renditions = {}
         THEN buildGroups(insp, index, Tail(rows))
         ELSE <<buildGroup(insp, index, Head(rows))>>
              \o buildGroups(insp, index, Tail(rows))

\* a comparator that puts the unpublished groups first
compareGroupsUnpublishedFirst(a, b) ==
    LET ap == IF a.metadata.published THEN 1 ELSE 0
        bp == IF b.metadata.published THEN 1 ELSE 0
    IN  IF ap # bp THEN ap - bp
        ELSE IF a.sortKey.typeOrder # b.sortKey.typeOrder
             THEN a.sortKey.typeOrder - b.sortKey.typeOrder
        ELSE IF a.sortKey.cam # b.sortKey.cam
             THEN localeCompare(a.sortKey.cam, b.sortKey.cam)
        ELSE localeCompare(a.sortKey.side, b.sortKey.side)

\* a comparator that stops at the bucket rank
compareGroupsByBucket(a, b) ==
    LET ap == IF a.metadata.published THEN 1 ELSE 0
        bp == IF b.metadata.published THEN 1 ELSE 0
    IN  IF ap # bp THEN bp - ap
        ELSE a.sortKey.typeOrder - b.sortKey.typeOrder

\* the comparator of groups.sort: negative when a goes before b
compareGroups(a, b) ==
    LET ap == IF a.metadata.published THEN 1 ELSE 0
        bp == IF b.metadata.published THEN 1 ELSE 0
    IN  IF ap # bp THEN bp - ap
        ELSE IF a.sortKey.typeOrder # b.sortKey.typeOrder
             THEN a.sortKey.typeOrder - b.sortKey.typeOrder
        ELSE IF a.sortKey.cam # b.sortKey.cam
             THEN localeCompare(a.sortKey.cam, b.sortKey.cam)
        ELSE localeCompare(a.sortKey.side, b.sortKey.side)

RECURSIVE insertGroup(_, _)
insertGroup(sorted, g) ==
    IF sorted = <<>> THEN <<g>>
    ELSE IF compareGroups(g, Head(sorted)) < 0
         THEN <<g>> \o sorted
         ELSE <<Head(sorted)>> \o insertGroup(Tail(sorted), g)

RECURSIVE sortGroups(_, _)
sortGroups(sorted, gs) ==
    IF gs = <<>> THEN sorted
    ELSE sortGroups(insertGroup(sorted, Head(gs)), Tail(gs))

processInspectionData(insp) ==
    IF IsNull(insp.uvpaintData) THEN <<>>
    ELSE sortGroups(<<>>, buildGroups(insp, indexOriginals(insp.uvpaintData),
                                      extractRows(insp.uvpaintData)))

----------------------------------------------------------------------------
(* Raw inspections *)

MaxImages == 2      \* entries of uvpaintData.images
MaxHistory == 1     \* entries of uvpaintData.uvpaintHistoryImages

SeqsUpTo(S, n) == UNION {[1..k -> S] : k \in 0..n}

tSlimOverview == <<"S","l","i","m","O","v","e","r","v","i","e","w">>
tZoomer == <<"Z","o","o","m","e","r">>
tZoomerFront == <<"Z","o","o","m","e","r","F","r","o","n","t">>
cFront == <<"F","r","o","n","t">>
cFrontPadded == <<" ","F","R","O","N","T"," ">>
cRear == <<"R","e","a","r">>
dLeft == <<"L","e","f","t">>
dRight == <<"R","i","g","h","t">>

Pov(cam, side, serial) ==
    [simulatedCamera |-> cam, simulatedCameraSide |-> side,
     serialNumber |-> serial, originalCameraId |-> Null]

\* a raw entry: image type, pov, rendition, activeImage, isActive,
\* originalImage, originalImageUrl, status, actionsCounterMap
Entry(type, pov, rendition, active, isActive, orig, origUrl, status, acts) ==
    [imageType |-> type, pov |-> pov, rendition |-> rendition,
     activeImage |-> active, isActive |-> isActive,
     originalImage |-> orig, originalImageUrl |-> origUrl,
     originalImageWithBackground |-> Null,
     originalImageWithoutBackground |-> Null,
     status |-> status, actionsCounterMap |-> acts]

Url(a, b) == Str(<<a, b>>)

InspectionsOver(E) ==
    {[inspectionId |-> Str(<<"i","1">>), vehicleInfo |-> Null,
      uvpaintData |-> Null]}
    \cup
    {[inspectionId |-> Str(<<"i","1">>), vehicleInfo |-> Null,
      uvpaintData |-> [images |-> im, uvpaintHistoryImages |-> hi]] :
        im \in SeqsUpTo(E, MaxImages), hi \in SeqsUpTo(E, MaxHistory)}

\* one viewpoint, many renditions: explicit numbers, a numeric string, an
\* omitted rendition and a non-numeric one; the url names the rendition
RenditionEntries ==
    {Entry(Str(tSlimOverview), Pov(Str(cFront), Str(dLeft), Num(1)),
           r[1], Url("u", r[2]), FALSE, Null, Null, Null, Null) :
        r \in {<<Num(1), "1">>, <<Num(3), "3">>, <<Num(5), "5">>,
               <<Str(<<"5">>), "s">>, <<Null, "d">>, <<Str(<<"x">>), "x">>}}

\* camera and side spellings: normalised, open-vocabulary, absent, the
\* literal "na", and values that contain the separator; two serial numbers
KeyEntries ==
    {Entry(Str(tSlimOverview), Pov(p[1], p[2], Num(p[3])),
           Num(3), Url("u", p[4]), FALSE, Null, Null, Null, Null) :
        p \in {<<Str(cFront), Str(dLeft), 1, "1">>,
               <<Str(cFront), Str(dLeft), 2, "1">>,
               <<Str(<<"a","_","b">>), Str(<<"c">>), 1, "4">>,
               <<Str(<<"a">>), Str(<<"b","_","c">>), 1, "5">>,
               <<Null, Str(dLeft), 1, "6">>,
               <<Str(sNaKey), Str(dLeft), 1, "7">>}}
    \cup
    {Entry(Str(tZoomerFront), Pov(Str(cFrontPadded), Str(sLeft), Num(1)),
           Num(3), Url("u", "8"), FALSE, Null, Null, Null, Null)}

\* one viewpoint; the candidates differ in active image, isActive and (by
\* the collection they are put in) source; an omitted rendition makes the
\* current-pipeline entries collide at 3 and the historical ones at 1, an
\* explicit 3 makes entries of both collections collide, an explicit 0 is a
\* third, older rendition
ScoreEntries ==
    {Entry(Str(tSlimOverview), Pov(Str(cFront), Str(dLeft), Num(1)),
           Null, u, a, Null, Null, Null, Null) :
        u \in {Null, Url("u", "1"), Url("u", "2")}, a \in BOOLEAN}
    \cup
    {Entry(Str(tSlimOverview), Pov(Str(cFront), Str(dLeft), Num(1)),
           Num(3), Str(<<" ">>), TRUE, Null, Null, Null, Null),
     Entry(Str(tSlimOverview), Pov(Str(cFront), Str(dLeft), Num(1)),
           Num(0), Url("u", "1"), TRUE, Null, Null, Null, Null)}

\* SlimOverview and Zoomer entries with and without an original url
OriginalEntries ==
    {Entry(Str(tSlimOverview), Pov(Str(cFront), Str(dLeft), Num(1)),
           Null, Url("u", "1"), FALSE, o[1], o[2], Null, Null) :
        o \in {<<Url("o", "1"), Null>>,
               <<Str(<<" ">>), Url("o", "3")>>, <<Null, Null>>}}
    \cup
    {Entry(Str(tZoomerFront), Pov(Str(cFront), Str(dLeft), Num(1)),
           Null, Url("u", "2"), FALSE, Url("o", "4"), Null, Null, Null),
     Entry(Str(tSlimOverview), Pov(Null, Str(dLeft), Num(1)),
           Null, Url("u", "4"), FALSE, Url("o", "5"), Null, Null, Null),
     Entry(Str(tSlimOverview), Pov(Str(<<"a","_","b">>), Str(<<"c">>), Num(1)),
           Null, Url("u", "5"), FALSE, Url("o", "6"), Null, Null, Null),
     Entry(Str(tZoomer), Pov(Str(<<"a">>), Str(<<"b","_","c">>), Num(1)),
           Null, Url("u", "6"), FALSE, Null, Null, Null, Null)}

\* several viewpoints of both buckets, published and not
SortEntries ==
    {Entry(Str(p[1]), Pov(p[2], p[3], Num(1)),
           Null, Url("u", "1"), p[4], Null, Null, Null, Null) :
        p \in {<<tSlimOverview, Str(cFront), Str(dLeft), TRUE>>,
               <<tSlimOverview, Str(cFront), Str(dRight), FALSE>>,
               <<tSlimOverview, Null, Str(dLeft), FALSE>>,
               <<tSlimOverview, Str(<<"_","x">>), Str(dLeft), TRUE>>,
               <<tZoomerFront, Str(cFront), Str(dLeft), TRUE>>,
               <<tZoomerFront, Str(cFront), Str(dLeft), FALSE>>,
               <<tZoomer, Str(cRear), Str(dRight), FALSE>>}}

tArtemis == <<"A","r","t","e","m","i","s">>
tUV360 == <<"U","V","3","6","0">>
tSlimOverviewPadded == <<" ","s","l","i","m","O","V","E","R","V","I","E","W"," ">>

\* entries the extraction loops accept and reject: an omitted, an explicit,
\* a numeric-string and a non-numeric rendition; the excluded category, an
\* unclassified type, and an entry without a POV
ExtractionEntries ==
    {Entry(Str(tSlimOverview), Pov(Str(cFront), Str(dLeft), Num(1)),
           Null, Url("u", "1"), FALSE, Null, Null, Null, Null),
     Entry(Str(tSlimOverviewPadded), Pov(Str(cFront), Str(dLeft), Num(1)),
           Num(5), Url("u", "5"), FALSE, Null, Null, Null, Null),
     Entry(Str(tSlimOverview), Pov(Str(cRear), Str(dRight), Num(1)),
           Str(<<"x">>), Url("u", "x"), FALSE, Null, Null, Null, Null),
     Entry(Str(tZoomerFront), Pov(Str(cRear), Str(dRight), Num(1)),
           Str(<<"2">>), Url("u", "2"), FALSE, Null, Null, Null, Null),
     Entry(Str(tArtemis), Pov(Str(cFront), Str(dLeft), Num(1)),
           Num(3), Url("u", "a"), FALSE, Null, Null, Null, Null),
     Entry(Str(tUV360), Pov(Str(cFront), Str(dLeft), Num(1)),
           Null, Url("u", "v"), FALSE, Null, Null, Null, Null),
     Entry(Str(tSlimOverview), Null,
           Num(3), Url("u", "n"), FALSE, Null, Null, Null, Null)}

\* camera, side and type spellings: empty, absent, padded mixed case,
\* digits, and words outside the vocabulary
NormalizeEntries ==
    {Entry(p[1], Pov(p[2], p[3], Num(1)),
           Num(3), Url("u", "1"), FALSE, Null, Null, Null, Null) :
        p \in {<<Str(tSlimOverview), Str(<<>>), Str(<<>>)>>,
               <<Str(tZoomer), Null, Null>>,
               <<Str(tSlimOverviewPadded), Str(cFrontPadded), Str(<<"L","E","F","T">>)>>,
               <<Str(tSlimOverview), Str(<<"1">>), Str(<<"2">>)>>,
               <<Str(tUV360), Str(cRear), Str(<<"C","e","n","t","e","r">>)>>,
               <<Null, Str(cRear), Str(dRight)>>,
               <<Str(tZoomerFront), Str(<<"t","o","p">>), Str(dRight)>>}}

----------------------------------------------------------------------------
(* Numbers of the rollups: quotients of integers, kept in lowest terms *)

Abs(n) == IF n < 0 THEN -n ELSE n

RECURSIVE Gcd(_, _)
Gcd(a, b) == IF b = 0 THEN a ELSE Gcd(b, a % b)

\* n / d for an integer n and a positive integer d
Quot(n, d) ==
    LET g == Gcd(Abs(n), d) IN [nu |-> n \div g, de |-> d \div g]

QZero == Quot(0, 1)
QSub(a, b) == Quot(a.nu * b.de - b.nu * a.de, a.de * b.de)
QTimes(a, k) == Quot(a.nu * k, a.de)
QLess(a, b) == a.nu * b.de < b.nu * a.de

\* a / b for b # 0
QDiv(a, b) ==
    IF b.nu > 0 THEN Quot(a.nu * b.de, a.de * b.nu)
    ELSE Quot(-(a.nu * b.de), a.de * (-b.nu))

----------------------------------------------------------------------------
(* getTrendIndicator *)

\* the threshold is 0.5
getTrendIndicator(difference) ==
    IF 2 * Abs(difference.nu) < difference.de
    THEN [status |-> "stable", direction |-> "neutral"]
    ELSE IF difference.nu > 0
         THEN [status |-> "increasing", direction |-> "up"]
         ELSE [status |-> "decreasing", direction |-> "down"]

----------------------------------------------------------------------------
(* computeAggregatedMetrics *)

\* the characters of a bucket name
BucketName(bucketType) ==
    IF bucketType = "SlimOverview" THEN Str(tSlimOverview)
    ELSE IF bucketType = "Zoomer" THEN Str(tZoomer) ELSE Null

\* [a, b, c, d].join("|") of the four values, "N/A" for a falsy one
tableDKey(imageType, cam, side, cameraId) ==
    OrElse(imageType, Str(sNA)).str \o <<"|">> \o OrElse(cam, Str(sNA)).str
        \o <<"|">> \o OrElse(side, Str(sNA)).str
        \o <<"|">> \o OrElse(cameraId, Str(sNA)).str

\* actions[i] !== null && actions[i] !== undefined && actions[i] !== "N/A"
hasActionCount(a) == ~IsNull(a) /\ a # Str(sNA)

\* an accumulation in which a later comparison replaces the totals
addSlotActionsLastWins(t, actions) ==
    LET t1 == IF hasActionCount(actions[1])
              THEN [t EXCEPT !.previousTotalActions = NumberOrZero(actions[1]),
                             !.previousCount = 1]
              ELSE t
    IN  IF hasActionCount(actions[2])
        THEN [t1 EXCEPT !.latestTotalActions = NumberOrZero(actions[2]),
                        !.latestCount = 1]
        ELSE t1

\* the Previous / Latest accumulation of one comparison into the tally t
addSlotActions(t, actions) ==
    LET t1 == IF hasActionCount(actions[1])
              THEN [t EXCEPT !.previousTotalActions = @ + NumberOrZero(actions[1]),
                             !.previousCount = @ + 1]
              ELSE t
    IN  IF hasActionCount(actions[2])
        THEN [t1 EXCEPT !.latestTotalActions = @ + NumberOrZero(actions[2]),
                        !.latestCount = @ + 1]
        ELSE t1

\* one iteration of insp.comparisons.forEach over aggDComparisons
addComparison(rows, comp) ==
    LET pov == comp.metadata.pov IN
    IF IsNull(pov) THEN rows
    ELSE
    LET imageType == BucketName(comp.metadata.bucketType)
        key == tableDKey(imageType, pov.simulatedCamera,
                         pov.simulatedCameraSide, pov.originalCameraId)
        rows1 == IF RowIndex(rows, key) > 0 THEN rows
                 ELSE Append(rows,
                        [key |-> key,
                         imageType |-> OrElse(imageType, Str(sNA)),
                         simulatedCamera |-> OrElse(pov.simulatedCamera, Str(sNA)),
                         simulatedCameraSide |->
                             OrElse(pov.simulatedCameraSide, Str(sNA)),
                         originalCameraId |-> OrElse(pov.originalCameraId, Str(sNA)),
                         previousTotalActions |-> 0, previousCount |-> 0,
                         latestTotalActions |-> 0, latestCount |-> 0])
        k == RowIndex(rows1, key)
    IN  [rows1 EXCEPT ![k] = addSlotActions(@, comp.metadata.actions)]

RECURSIVE addComparisons(_, _)
addComparisons(rows, comps) ==
    IF comps = <<>> THEN rows
    ELSE addComparisons(addComparison(rows, Head(comps)), Tail(comps))

\* the first forEach over processedInspections
RECURSIVE aggDComparisonsOf(_, _)
aggDComparisonsOf(rows, processed) ==
    IF processed = <<>> THEN rows
    ELSE aggDComparisonsOf(addComparisons(rows, Head(processed).comparisons),
                           Tail(processed))

\* arr.filter(isPublishedUvpaint)
RECURSIVE filterPublished(_)
filterPublished(imgs) ==
    IF imgs = <<>> THEN <<>>
    ELSE (IF isPublishedUvpaint(Head(imgs)) THEN <<Head(imgs)>> ELSE <<>>)
         \o filterPublished(Tail(imgs))

\* (uvpaintData?.images || []).filter(isPublishedUvpaint)
publishedUvpaintOf(insp) ==
    IF IsNull(insp.rawInspection) THEN <<>>
    ELSE IF IsNull(insp.rawInspection.uvpaintData) THEN <<>>
    ELSE filterPublished(insp.rawInspection.uvpaintData.images)

RECURSIVE totalActionsOf(_)
totalActionsOf(imgs) ==
    IF imgs = <<>> THEN 0
    ELSE sumActionMap(Head(imgs).actionsCounterMap) + totalActionsOf(Tail(imgs))

RECURSIVE imagesWithActionsOf(_)
imagesWithActionsOf(imgs) ==
    IF imgs = <<>> THEN 0
    ELSE (IF sumActionMap(Head(imgs).actionsCounterMap) > 0 THEN 1 ELSE 0)
         + imagesWithActionsOf(Tail(imgs))

\* total / count, 0 for an empty count
meanOf(total, count) == IF count > 0 THEN Quot(total, count) ELSE QZero

\* a percent change without the 100 of a zero previous mean
percentChangeZeroBase(difference, avgPrevious, avgLatest) ==
    IF avgPrevious.nu > 0
    THEN QTimes(QDiv(difference, avgPrevious), 100)
    ELSE QZero

percentChange(difference, avgPrevious, avgLatest) ==
    IF avgPrevious.nu > 0
    THEN QTimes(QDiv(difference, avgPrevious), 100)
    ELSE IF avgLatest.nu > 0 THEN Quot(100, 1) ELSE QZero

\* a tally that reads the Latest slot as Previous and the Previous as Latest
RECURSIVE tallyComparisonsSlotsSwapped(_, _)
tallyComparisonsSlotsSwapped(t, comps) ==
    IF comps = <<>> THEN t
    ELSE tallyComparisonsSlotsSwapped(
             addSlotActions(t, <<Head(comps).metadata.actions[2],
                                 Head(comps).metadata.actions[1],
                                 Head(comps).metadata.actions[3]>>),
             Tail(comps))

RECURSIVE tallyComparisons(_, _)
tallyComparisons(t, comps) ==
    IF comps = <<>> THEN t
    ELSE tallyComparisons(addSlotActions(t, Head(comps).metadata.actions),
                          Tail(comps))

\* `${year || ""} ${make || ""} ${model || ""}`.trim(), or "Inspection n"
labelOf(insp, idx) ==
    IF IsNull(insp.vehicle) THEN <<"Inspection", " ", Digits[idx + 1]>>
    ELSE Trim(CharsOf(insp.vehicle.year) \o <<" ">> \o CharsOf(insp.vehicle.make)
              \o <<" ">> \o CharsOf(insp.vehicle.model))

\* the row pushed to tableA for the idx-th processed inspection (from 1)
tableARowOf(insp, idx) ==
    LET publishedUvpaint == publishedUvpaintOf(insp)
        publishedCount == Len(publishedUvpaint)
        totalActions == totalActionsOf(publishedUvpaint)
        t == tallyComparisons([previousTotalActions |-> 0, previousCount |-> 0,
                               latestTotalActions |-> 0, latestCount |-> 0],
                              insp.comparisons)
        avgPreviousActions == meanOf(t.previousTotalActions, t.previousCount)
        avgLatestActions == meanOf(t.latestTotalActions, t.latestCount)
        actionsDifference == QSub(avgLatestActions, avgPreviousActions)
        trend == getTrendIndicator(actionsDifference)
    IN  [inspectionIndex |-> idx,
         inspectionId |-> insp.inspectionId,
         label |-> labelOf(insp, idx),
         publishedCount |-> publishedCount,
         imagesWithActions |-> imagesWithActionsOf(publishedUvpaint),
         avgActionsPerImage |-> meanOf(totalActions, publishedCount),
         avgPreviousActions |-> avgPreviousActions,
         avgLatestActions |-> avgLatestActions,
         actionsDifference |-> actionsDifference,
         actionsPercentChange |->
             percentChange(actionsDifference, avgPreviousActions, avgLatestActions),
         trendStatus |-> trend.status,
         trendDirection |-> trend.direction]

tableAOf(processed) ==
    [idx \in 1..Len(processed) |-> tableARowOf(processed[idx], idx)]

\* addToTableD for one published image
addToTableD(rows, img) ==
    LET cameraId == OrElse(img.pov.originalCameraId, Str(sNA))
        key == tableDKey(img.imageType, img.pov.simulatedCamera,
                         img.pov.simulatedCameraSide, cameraId)
        rows1 == IF RowIndex(rows, key) > 0 THEN rows
                 ELSE Append(rows,
                        [key |-> key,
                         imageType |-> OrElse(img.imageType, Str(sNA)),
                         simulatedCamera |->
                             OrElse(img.pov.simulatedCamera, Str(sNA)),
                         simulatedCameraSide |->
                             OrElse(img.pov.simulatedCameraSide, Str(sNA)),
                         originalCameraId |-> OrElse(cameraId, Str(sNA)),
                         images |-> 0, totalActions |-> 0,
                         previousTotalActions |-> 0, previousCount |-> 0,
                         latestTotalActions |-> 0, latestCount |-> 0])
        k == RowIndex(rows1, key)
    IN  [rows1 EXCEPT ![k] =
            [@ EXCEPT !.images = @ + 1,
                      !.totalActions = @ + sumActionMap(img.actionsCounterMap)]]

RECURSIVE addAllToTableD(_, _)
addAllToTableD(rows, imgs) ==
    IF imgs = <<>> THEN rows
    ELSE addAllToTableD(addToTableD(rows, Head(imgs)), Tail(imgs))

\* the second forEach over processedInspections, as far as aggD goes
RECURSIVE aggDOf(_, _)
aggDOf(rows, processed) ==
    IF processed = <<>> THEN rows
    ELSE aggDOf(addAllToTableD(rows, publishedUvpaintOf(Head(processed))),
                Tail(processed))

\* one iteration of aggDComparisons.forEach: merge a comparison row into aggD
mergeComparisonRow(rows, compRow) ==
    LET k == RowIndex(rows, compRow.key) IN
    IF k > 0
    THEN [rows EXCEPT ![k] =
            [@ EXCEPT !.previousTotalActions = compRow.previousTotalActions,
                      !.previousCount = compRow.previousCount,
                      !.latestTotalActions = compRow.latestTotalActions,
                      !.latestCount = compRow.latestCount]]
    ELSE Append(rows,
            [key |-> compRow.key,
             imageType |-> compRow.imageType,
             simulatedCamera |-> compRow.simulatedCamera,
             simulatedCameraSide |-> compRow.simulatedCameraSide,
             originalCameraId |-> compRow.originalCameraId,
             images |-> 0, totalActions |-> 0,
             previousTotalActions |-> compRow.previousTotalActions,
             previousCount |-> compRow.previousCount,
             latestTotalActions |-> compRow.latestTotalActions,
             latestCount |-> compRow.latestCount])

RECURSIVE mergeComparisonRows(_, _)
mergeComparisonRows(rows, compRows) ==
    IF compRows = <<>> THEN rows
    ELSE mergeComparisonRows(mergeComparisonRow(rows, Head(compRows)),
                             Tail(compRows))

\* the map of Array.from(aggD.values()): a row of tableD
tableDRowOf(r) ==
    LET avgPreviousActions == meanOf(r.previousTotalActions, r.previousCount)
        avgLatestActions == meanOf(r.latestTotalActions, r.latestCount)
        actionsDifference == QSub(avgLatestActions, avgPreviousActions)
        trend == getTrendIndicator(actionsDifference)
    IN  [key |-> r.key,
         imageType |-> r.imageType,
         simulatedCamera |-> r.simulatedCamera,
         simulatedCameraSide |-> r.simulatedCameraSide,
         originalCameraId |-> r.originalCameraId,
         images |-> r.images, totalActions |-> r.totalActions,
         previousTotalActions |-> r.previousTotalActions,
         previousCount |-> r.previousCount,
         latestTotalActions |-> r.latestTotalActions,
         latestCount |-> r.latestCount,
         avgActionsPerImage |-> meanOf(r.totalActions, r.images),
         avgPreviousActions |-> avgPreviousActions,
         avgLatestActions |-> avgLatestActions,
         actionsDifference |-> actionsDifference,
         actionsPercentChange |->
             percentChange(actionsDifference, avgPreviousActions, avgLatestActions),
         trendStatus |-> trend.status,
         trendDirection |-> trend.direction]

\* tableD.sort((a, b) => b.avgActionsPerImage - a.avgActionsPerImage): r goes
\* after the rows that do not compare greater than it
RECURSIVE insertTableDRow(_, _)
insertTableDRow(sorted, r) ==
    IF sorted = <<>> THEN <<r>>
    ELSE IF QLess(Head(sorted).avgActionsPerImage, r.avgActionsPerImage)
         THEN <<r>> \o sorted
         ELSE <<Head(sorted)>> \o insertTableDRow(Tail(sorted), r)

RECURSIVE sortTableD(_, _)
sortTableD(sorted, rows) ==
    IF rows = <<>> THEN sorted
    ELSE sortTableD(insertTableDRow(sorted, Head(rows)), Tail(rows))

computeAggregatedMetrics(processed) ==
    LET aggDComparisons == aggDComparisonsOf(<<>>, processed)
        aggD == mergeComparisonRows(aggDOf(<<>>, processed), aggDComparisons)
    IN  [tableA |-> tableAOf(processed),
         tableD |-> sortTableD(<<>>, [i \in 1..Len(aggD) |-> tableDRowOf(aggD[i])])]

----------------------------------------------------------------------------
(* validateMetricsAlignment *)

\* the two slots of one comparison: published and generated counts
cardCountsOf(comp) ==
    LET rd == comp.metadata.renditionData
        shown == {i \in 1..2 : ~IsNull(rd[i]) /\ ~IsNull(rd[i].activeImage)}
        published == {i \in shown : rd[i].isActive}
    IN  [published |-> Cardinality(published),
         generated |-> Cardinality(shown \ published)]

RECURSIVE cardPublishedCountOf(_)
cardPublishedCountOf(comps) ==
    IF comps = <<>> THEN 0
    ELSE cardCountsOf(Head(comps)).published + cardPublishedCountOf(Tail(comps))

RECURSIVE cardGeneratedCountOf(_)
cardGeneratedCountOf(comps) ==
    IF comps = <<>> THEN 0
    ELSE cardCountsOf(Head(comps)).generated + cardGeneratedCountOf(Tail(comps))

\* a validator that takes the gap with its sign: metrics minus cards
validateInspectionSigned(validation, insp, idx) ==
    LET metricsCount == Len(publishedUvpaintOf(insp))
        cardPublishedCount == cardPublishedCountOf(insp.comparisons)
        cardGeneratedCount == cardGeneratedCountOf(insp.comparisons)
        diff == metricsCount - cardPublishedCount
    IN  [totalPublishedInMetrics |-> validation.totalPublishedInMetrics + metricsCount,
         totalPublishedInCards |-> validation.totalPublishedInCards + cardPublishedCount,
         totalGeneratedInCards |-> validation.totalGeneratedInCards + cardGeneratedCount,
         mismatches |->
             IF diff > 0
             THEN Append(validation.mismatches,
                         [inspectionId |-> insp.inspectionId,
                          inspectionIndex |-> idx,
                          metricsCount |-> metricsCount,
                          cardPublishedCount |-> cardPublishedCount,
                          cardGeneratedCount |-> cardGeneratedCount,
                          difference |-> diff])
             ELSE validation.mismatches,
         breakdown |->
             [byInspection |->
                 Append(validation.breakdown.byInspection,
                        [inspectionId |-> insp.inspectionId,
                         inspectionIndex |-> idx,
                         metricsPublished |-> metricsCount,
                         cardPublished |-> cardPublishedCount,
                         cardGenerated |-> cardGeneratedCount,
                         comparisons |-> Len(insp.comparisons)])]]

\* one iteration of processedInspections.forEach, idx counted from 1
validateInspection(validation, insp, idx) ==
    LET metricsCount == Len(publishedUvpaintOf(insp))
        cardPublishedCount == cardPublishedCountOf(insp.comparisons)
        cardGeneratedCount == cardGeneratedCountOf(insp.comparisons)
        diff == Abs(metricsCount - cardPublishedCount)
    IN  [totalPublishedInMetrics |-> validation.totalPublishedInMetrics + metricsCount,
         totalPublishedInCards |-> validation.totalPublishedInCards + cardPublishedCount,
         totalGeneratedInCards |-> validation.totalGeneratedInCards + cardGeneratedCount,
         mismatches |->
             IF diff > 0
             THEN Append(validation.mismatches,
                         [inspectionId |-> insp.inspectionId,
                          inspectionIndex |-> idx,
                          metricsCount |-> metricsCount,
                          cardPublishedCount |-> cardPublishedCount,
                          cardGeneratedCount |-> cardGeneratedCount,
                          difference |-> diff])
             ELSE validation.mismatches,
         breakdown |->
             [byInspection |->
                 Append(validation.breakdown.byInspection,
                        [inspectionId |-> insp.inspectionId,
                         inspectionIndex |-> idx,
                         metricsPublished |-> metricsCount,
                         cardPublished |-> cardPublishedCount,
                         cardGenerated |-> cardGeneratedCount,
                         comparisons |-> Len(insp.comparisons)])]]

RECURSIVE validateFrom(_, _, _)
validateFrom(validation, processed, idx) ==
    IF idx > Len(processed) THEN validation
    ELSE validateFrom(validateInspection(validation, processed[idx], idx),
                      processed, idx + 1)

validateMetricsAlignment(processed) ==
    validateFrom([totalPublishedInMetrics |-> 0, totalPublishedInCards |-> 0,
                  totalGeneratedInCards |-> 0, mismatches |-> <<>>,
                  breakdown |-> [byInspection |-> <<>>]],
                 processed, 1)

----------------------------------------------------------------------------
(* Uploads: the inspection ids of a file and the upstream's answers *)

MaxIds == 2         \* inspection ids in an uploaded file

InspectionId(k) == Str(<<"i", Digits[k + 1]>>)

\* a raw inspection record
Inspection(id, images, history) ==
    [inspectionId |-> id, vehicleInfo |-> Null,
     uvpaintData |-> [images |-> images, uvpaintHistoryImages |-> history]]

\* the answer to one request: a non-OK status, a thrown fetch or parse
\* error, an answer without inspections, or an answer with a record
NotOk == [kind |-> "notOk", inspection |-> Null]
Throws == [kind |-> "throws", inspection |-> Null]
EmptyResult == [kind |-> "empty", inspection |-> Null]
Record(insp) == [kind |-> "record", inspection |-> insp]

Acts(n) == [map |-> <<Num(n)>>]

povFrontLeft == Pov(Str(cFront), Str(dLeft), Num(1))
povRearRight == Pov(Str(cRear), Str(dRight), Num(1))
povWithCameraId == [povFrontLeft EXCEPT !.originalCameraId = Str(<<"c", "1">>)]

\* a raw entry with a rendition, an active image, isActive and an action count
Image(type, pov, rendition, u, isActive, n) ==
    Entry(Str(type), pov, Num(rendition), Url("u", u), isActive, Null, Null, Null, Acts(n))

\* records whose groups have ids: with an inspectionId, without one, and
\* without uvpaintData
UploadRecords ==
    {Inspection(InspectionId(1), <<Image(tSlimOverview, povFrontLeft, 3, "1", TRUE, 2)>>, <<>>),
     Inspection(Null, <<Image(tSlimOverview, povFrontLeft, 3, "1", TRUE, 2)>>, <<>>)}

UploadResponses == {NotOk, Throws, EmptyResult} \cup {Record(r) : r \in UploadRecords}

UploadIdLists == SeqsUpTo({InspectionId(1), InspectionId(2)}, MaxIds)

\* Previous 1 and Latest 2 at Front/Left, the Latest one published
recordBeforeAfter ==
    Inspection(InspectionId(1),
               <<Image(tSlimOverview, povFrontLeft, 3, "1", TRUE, 2)>>,
               <<Image(tSlimOverview, povFrontLeft, 1, "0", FALSE, 1)>>)

\* Previous 10 and Latest 5 at Front/Left
recordDecrease ==
    Inspection(InspectionId(2),
               <<Image(tSlimOverview, povFrontLeft, 3, "1", TRUE, 5)>>,
               <<Image(tSlimOverview, povFrontLeft, 1, "0", FALSE, 10)>>)

\* one unpublished rendition without actions at Rear/Right
recordNoActions ==
    Inspection(InspectionId(3),
               <<Image(tSlimOverview, povRearRight, 3, "1", FALSE, 0)>>, <<>>)

\* a published image of raw type ZoomerFront, with a camera id
recordZoomer ==
    Inspection(InspectionId(4),
               <<Image(tZoomerFront, povWithCameraId, 3, "1", TRUE, 2)>>, <<>>)

\* a publish-flagged entry without a POV
recordNoPov ==
    Inspection(InspectionId(5),
               <<Image(tSlimOverview, Null, 3, "1", TRUE, 1)>>, <<>>)

\* a published entry of the historical collection at Rear/Right
recordHistoryPublished ==
    Inspection(InspectionId(6),
               <<>>, <<Image(tSlimOverview, povRearRight, 1, "0", TRUE, 3)>>)

\* two published entries that collide at Front/Left, rendition 3
recordCollision ==
    Inspection(InspectionId(7),
               <<Image(tSlimOverview, povFrontLeft, 3, "1", TRUE, 2),
                 Image(tSlimOverview, povFrontLeft, 3, "2", TRUE, 4)>>, <<>>)

MetricsRecords ==
    {recordBeforeAfter, recordDecrease, recordNoActions, recordZoomer,
     recordNoPov, recordHistoryPublished, recordCollision}

MetricsResponses == {Record(r) : r \in MetricsRecords}

MetricsIdLists == {[k \in 1..n |-> InspectionId(k)] : n \in 0..MaxIds}

----------------------------------------------------------------------------
(* Users *)

ADMIN_EMAIL == <<"a","a","r","o","n",".","g","@","u","v","e","y","e",".","c","o","m">>

isAdmin(u) ==
    IF IsNull(u) THEN FALSE
    ELSE IF ~IsStr(u.email) \/ u.email.str = <<>> THEN FALSE
    ELSE Trim(ToLowerCase(u.email.str)) = Trim(ToLowerCase(ADMIN_EMAIL))

\* the admin, signed in with an email in another letter case
AdminUser ==
    [uid |-> <<"u", "0">>,
     email |-> Str(<<"A","a","r","o","n",".","G","@","u","v","e","y","e",".","c","o","m">>)]

\* a viewer signed in with an email, and an anonymous viewer
ViewerUser(k) == [uid |-> <<"u", Digits[k + 1]>>, email |-> Str(<<"v", Digits[k + 1], "@", "x">>)]
AnonymousUser == [uid |-> <<"u", "9">>, email |-> Null]

\* the session after mount of a user u: no vote stored, aggregated or held
SessionInit(u) ==
    /\ user = u
    /\ votesStore = <<>>
    /\ votes = <<>>
    /\ userVotes = <<>>
    /\ voters = <<>>
    /\ attempt = Null

\* entries of images: published ones at Front/Left under 3 (by default)
\* and under 1, published ones at the viewpoints (a_b, c) and (a, b_c), and
\* an active entry without an active image
AlignmentImages ==
    {Entry(Str(tSlimOverview), povFrontLeft, Null, Url("u", "1"), TRUE, Null, Null, Null, Acts(2)),
     Entry(Str(tSlimOverview), povFrontLeft, Num(1), Url("u", "2"), TRUE, Null, Null, Null, Acts(1)),
     Entry(Str(tSlimOverview), Pov(Str(<<"a","_","b">>), Str(<<"c">>), Num(1)),
           Num(3), Url("u", "3"), TRUE, Null, Null, Null, Acts(1)),
     Entry(Str(tSlimOverview), Pov(Str(<<"a">>), Str(<<"b","_","c">>), Num(1)),
           Num(3), Url("u", "4"), TRUE, Null, Null, Null, Acts(1)),
     Entry(Str(tZoomerFront), povFrontLeft, Num(3), Null, TRUE, Null, Null, Null, Acts(0))}

\* entries of uvpaintHistoryImages, none of them published
AlignmentHistory ==
    {Entry(Str(tSlimOverview), povFrontLeft, Null, Url("u", "0"), FALSE, Null, Null, Null, Acts(1)),
     Entry(Str(tSlimOverview), povRearRight, Num(2), Url("u", "5"), FALSE, Null, Null, Null, Acts(0))}

AlignmentResponses ==
    {Record(Inspection(InspectionId(1), im, hi)) :
        im \in SeqsUpTo(AlignmentImages, MaxImages),
        hi \in SeqsUpTo(AlignmentHistory, MaxHistory)}

----------------------------------------------------------------------------
(* The call *)

EmptyMetrics == [tableA |-> <<>>, tableD |-> <<>>, validation |-> Null]

\* the application state after mount
AppInit ==
    /\ inspections = <<>>
    /\ metrics = EmptyMetrics
    /\ currentInspectionIndex = 0
    /\ currentComparisonIndex = 0
    /\ activeView = "comparisons"
    /\ loadMethod = Null
    /\ error = ""
    /\ loading = FALSE
    /\ campaignDoc = Null

\* no upload is going on
UploadIdle ==
    /\ inspectionIds = <<>>
    /\ responses = <<>>
    /\ requests = <<>>
    /\ fetchIndex = 1
    /\ processedInspections = <<>>
    /\ uploadPc = "idle"

InitOver(E) ==
    /\ inspection \in InspectionsOver(E)
    /\ pc = "start"
    /\ rowsByKey = <<>>
    /\ originalsByCamSide = <<>>
    /\ groups = <<>>
    /\ UploadIdle
    /\ AppInit
    /\ SessionInit(AdminUser)

\* one call of processInspectionData(inspection)
ProcessInspection ==
    /\ pc = "start"
    /\ pc' = "done"
    /\ IF IsNull(inspection.uvpaintData)
       THEN /\ rowsByKey' = <<>>
            /\ originalsByCamSide' = <<>>
       ELSE /\ rowsByKey' = extractRows(inspection.uvpaintData)
            /\ originalsByCamSide' = indexOriginals(inspection.uvpaintData)
    /\ groups' = IF IsNull(inspection.uvpaintData) THEN <<>>
                 ELSE sortGroups(<<>>, buildGroups(inspection,
                                                   originalsByCamSide',
                                                   rowsByKey'))
    /\ UNCHANGED <<inspection, uploadVars, appVars, sessionVars>>

Next == ProcessInspection

Init == InitOver(RenditionEntries)
Spec == Init /\ [][Next]_vars

InitKey == InitOver(KeyEntries)
SpecKey == InitKey /\ [][Next]_vars

InitScore == InitOver(ScoreEntries)
SpecScore == InitScore /\ [][Next]_vars

InitOriginal == InitOver(OriginalEntries)
SpecOriginal == InitOriginal /\ [][Next]_vars

InitSort == InitOver(SortEntries)
SpecSort == InitSort /\ [][Next]_vars

InitExtraction == InitOver(ExtractionEntries)
SpecExtraction == InitExtraction /\ [][Next]_vars

InitNormalize == InitOver(NormalizeEntries)
SpecNormalize == InitNormalize /\ [][Next]_vars

----------------------------------------------------------------------------
(* handleCSVUpload *)

\* the state in which an admin has chosen a file with the ids of idLists
\* and the upstream will answer with responses of rs
InitUploadOver(idLists, rs) ==
    /\ inspection = Null
    /\ pc = "start"
    /\ rowsByKey = <<>>
    /\ originalsByCamSide = <<>>
    /\ groups = <<>>
    /\ inspectionIds \in idLists
    /\ responses \in [1..Len(inspectionIds) -> rs]
    /\ requests = <<>>
    /\ fetchIndex = 1
    /\ processedInspections = <<>>
    /\ uploadPc = "idle"
    /\ AppInit
    /\ SessionInit(AdminUser)

\* the handler up to its first request: loading is set, the error cleared,
\* and a file without ids ends the upload with an error
StartUpload ==
    /\ uploadPc = "idle"
    /\ isAdmin(user)
    /\ IF inspectionIds = <<>>
       THEN /\ error' = "No inspection IDs found in CSV"
            /\ loading' = FALSE
            /\ uploadPc' = "failed"
       ELSE /\ error' = ""
            /\ loading' = TRUE
            /\ uploadPc' = "fetching"
    /\ fetchIndex' = 1
    /\ processedInspections' = <<>>
    /\ UNCHANGED <<processVars, inspectionIds, responses, requests, sessionVars>>
    /\ UNCHANGED <<inspections, metrics, currentInspectionIndex, currentComparisonIndex, activeView, loadMethod, campaignDoc>>

\* an iteration in which a failure ends the loop
FetchInspectionAbortOnFailure ==
    /\ uploadPc = "fetching"
    /\ fetchIndex <= Len(inspectionIds)
    /\ requests' = Append(requests, inspectionIds[fetchIndex])
    /\ IF responses[fetchIndex].kind = "record"
       THEN /\ inspection' = responses[fetchIndex].inspection
            /\ pc' = "done"
            /\ rowsByKey' = IF IsNull(inspection'.uvpaintData) THEN <<>>
                            ELSE extractRows(inspection'.uvpaintData)
            /\ originalsByCamSide' = IF IsNull(inspection'.uvpaintData) THEN <<>>
                                     ELSE indexOriginals(inspection'.uvpaintData)
            /\ groups' = processInspectionData(inspection')
            /\ processedInspections' =
                  Append(processedInspections,
                         [inspectionId |-> inspectionIds[fetchIndex],
                          vehicle |-> inspection'.vehicleInfo,
                          comparisons |-> groups',
                          rawInspection |-> inspection'])
            /\ fetchIndex' = fetchIndex + 1
       ELSE /\ fetchIndex' = Len(inspectionIds) + 1
            /\ UNCHANGED <<processVars, processedInspections>>
    /\ UNCHANGED <<inspectionIds, responses, uploadPc, appVars, sessionVars>>

\* one iteration of the loop over inspectionIds: the request, and for an
\* answer with a record the call of processInspectionData and the push
FetchInspection ==
    /\ uploadPc = "fetching"
    /\ fetchIndex <= Len(inspectionIds)
    /\ requests' = Append(requests, inspectionIds[fetchIndex])
    /\ IF responses[fetchIndex].kind = "record"
       THEN /\ inspection' = responses[fetchIndex].inspection
            /\ pc' = "done"
            /\ rowsByKey' = IF IsNull(inspection'.uvpaintData) THEN <<>>
                            ELSE extractRows(inspection'.uvpaintData)
            /\ originalsByCamSide' = IF IsNull(inspection'.uvpaintData) THEN <<>>
                                     ELSE indexOriginals(inspection'.uvpaintData)
            /\ groups' = processInspectionData(inspection')
            /\ processedInspections' =
                  Append(processedInspections,
                         [inspectionId |-> inspectionIds[fetchIndex],
                          vehicle |-> inspection'.vehicleInfo,
                          comparisons |-> groups',
                          rawInspection |-> inspection'])
       ELSE UNCHANGED <<processVars, processedInspections>>
    /\ fetchIndex' = fetchIndex + 1
    /\ UNCHANGED <<inspectionIds, responses, uploadPc, appVars, sessionVars>>

\* a handler that saves before it looks at what was processed
FinishUploadSavesFirst ==
    /\ uploadPc = "fetching"
    /\ fetchIndex > Len(inspectionIds)
    /\ loading' = FALSE
    /\ campaignDoc' = [inspections |-> processedInspections, metrics |-> EmptyMetrics]
    /\ IF processedInspections = <<>>
       THEN /\ error' = "No valid inspections could be processed"
            /\ uploadPc' = "failed"
            /\ UNCHANGED <<inspections, metrics, currentInspectionIndex, currentComparisonIndex, activeView, loadMethod>>
       ELSE /\ metrics' = [tableA |-> computeAggregatedMetrics(processedInspections).tableA,
                           tableD |-> computeAggregatedMetrics(processedInspections).tableD,
                           validation |-> validateMetricsAlignment(processedInspections)]
            /\ inspections' = processedInspections
            /\ currentInspectionIndex' = 0
            /\ currentComparisonIndex' = 0
            /\ activeView' = "comparisons"
            /\ loadMethod' = Str(<<"c", "s", "v">>)
            /\ uploadPc' = "done"
            /\ UNCHANGED error
    /\ UNCHANGED <<processVars, inspectionIds, responses, requests, fetchIndex, processedInspections, sessionVars>>

\* the handler after the loop: an error when nothing was processed,
\* otherwise the rollups, the new state and the save to the shared store,
\* which may fail
FinishUpload ==
    /\ uploadPc = "fetching"
    /\ fetchIndex > Len(inspectionIds)
    /\ loading' = FALSE
    /\ IF processedInspections = <<>>
       THEN /\ error' = "No valid inspections could be processed"
            /\ uploadPc' = "failed"
            /\ UNCHANGED <<inspections, metrics, currentInspectionIndex, currentComparisonIndex, activeView, loadMethod, campaignDoc>>
       ELSE /\ metrics' = [tableA |-> computeAggregatedMetrics(processedInspections).tableA,
                           tableD |-> computeAggregatedMetrics(processedInspections).tableD,
                           validation |-> validateMetricsAlignment(processedInspections)]
            /\ inspections' = processedInspections
            /\ currentInspectionIndex' = 0
            /\ currentComparisonIndex' = 0
            /\ activeView' = "comparisons"
            /\ loadMethod' = Str(<<"c", "s", "v">>)
            /\ \E saved \in BOOLEAN :
                  campaignDoc' = IF saved
                                 THEN [inspections |-> processedInspections,
                                       metrics |-> metrics']
                                 ELSE campaignDoc
            /\ uploadPc' = "done"
            /\ UNCHANGED error
    /\ UNCHANGED <<processVars, inspectionIds, responses, requests, fetchIndex, processedInspections, sessionVars>>

NextUpload == StartUpload \/ FetchInspection \/ FinishUpload

InitUpload == InitUploadOver(UploadIdLists, UploadResponses)
SpecUpload == InitUpload /\ [][NextUpload]_vars

InitMetrics == InitUploadOver(MetricsIdLists, MetricsResponses)
SpecMetrics == InitMetrics /\ [][NextUpload]_vars

----------------------------------------------------------------------------
(* The session: uploads, the campaign listener, reset and navigation *)

\* a record without entries, and one with two viewpoints
recordNoGroups == Inspection(InspectionId(8), <<>>, <<>>)

recordTwoGroups ==
    Inspection(InspectionId(9),
               <<Image(tSlimOverview, povFrontLeft, 3, "1", TRUE, 2),
                 Image(tSlimOverview, povRearRight, 3, "2", FALSE, 1)>>, <<>>)

\* the files of a session: without ids, with an id that fails, and with
\* ids that yield one or two inspections
SessionFiles ==
    {[ids |-> <<>>, rs |-> <<>>],
     [ids |-> <<InspectionId(1)>>, rs |-> <<NotOk>>],
     [ids |-> <<InspectionId(1)>>, rs |-> <<Record(recordTwoGroups)>>],
     [ids |-> <<InspectionId(1), InspectionId(2)>>,
      rs |-> <<Record(recordTwoGroups), Record(recordNoGroups)>>],
     [ids |-> <<InspectionId(1), InspectionId(2)>>,
      rs |-> <<Throws, Record(recordBeforeAfter)>>]}

\* processedInspections after the loop over ids, from position k on
RECURSIVE processedFrom(_, _, _)
processedFrom(ids, rs, k) ==
    IF k > Len(ids) THEN <<>>
    ELSE (IF rs[k].kind = "record"
          THEN <<[inspectionId |-> ids[k],
                  vehicle |-> rs[k].inspection.vehicleInfo,
                  comparisons |-> processInspectionData(rs[k].inspection),
                  rawInspection |-> rs[k].inspection]>>
          ELSE <<>>) \o processedFrom(ids, rs, k + 1)

\* firebaseData: the campaign document an upload saves
campaignOf(processed) ==
    [inspections |-> processed,
     metrics |-> [tableA |-> computeAggregatedMetrics(processed).tableA,
                  tableD |-> computeAggregatedMetrics(processed).tableD,
                  validation |-> validateMetricsAlignment(processed)]]

\* the documents that uploads of the session's files save
SessionCampaigns ==
    {campaignOf(processedFrom(f.ids, f.rs, 1)) :
        f \in {g \in SessionFiles : processedFrom(g.ids, g.rs, 1) # <<>>}}

sFirebase == <<"f", "i", "r", "e", "b", "a", "s", "e">>

\* the admin chooses a file on the upload screen, which is shown while
\* nothing is loaded; the input is disabled while loading
SelectFile ==
    /\ uploadPc \in {"done", "failed"}
    /\ isAdmin(user)
    /\ IsNull(loadMethod)
    /\ ~loading
    /\ \E f \in SessionFiles :
          /\ inspectionIds' = f.ids
          /\ responses' = f.rs
    /\ requests' = <<>>
    /\ fetchIndex' = 1
    /\ processedInspections' = <<>>
    /\ uploadPc' = "idle"
    /\ UNCHANGED <<processVars, appVars, sessionVars>>

\* an upload in another session of the admin saves its campaign document
RemoteUpload ==
    /\ \E d \in SessionCampaigns : campaignDoc' = d
    /\ UNCHANGED <<processVars, uploadVars, sessionVars>>
    /\ UNCHANGED <<inspections, metrics, currentInspectionIndex, currentComparisonIndex, activeView, loadMethod, error, loading>>

\* a delivery that takes the inspections of the document and keeps the metrics
onCampaignSnapshotKeepsMetrics ==
    /\ ~IsNull(user)
    /\ ~isAdmin(user)
    /\ IF ~IsNull(campaignDoc) /\ Len(campaignDoc.inspections) > 0
       THEN /\ inspections' = campaignDoc.inspections
            /\ loadMethod' = Str(sFirebase)
            /\ UNCHANGED metrics
       ELSE UNCHANGED <<inspections, metrics, loadMethod>>
    /\ UNCHANGED <<processVars, uploadVars, sessionVars>>
    /\ UNCHANGED <<currentInspectionIndex, currentComparisonIndex, activeView, error, loading, campaignDoc>>

\* the campaign listener of a signed-in user who is not the admin: a
\* delivery of the document as it is in the shared store
onCampaignSnapshot ==
    /\ ~IsNull(user)
    /\ ~isAdmin(user)
    /\ IF ~IsNull(campaignDoc) /\ Len(campaignDoc.inspections) > 0
       THEN /\ inspections' = campaignDoc.inspections
            /\ metrics' = campaignDoc.metrics
            /\ loadMethod' = Str(sFirebase)
       ELSE UNCHANGED <<inspections, metrics, loadMethod>>
    /\ UNCHANGED <<processVars, uploadVars, sessionVars>>
    /\ UNCHANGED <<currentInspectionIndex, currentComparisonIndex, activeView, error, loading, campaignDoc>>

\* the button of the main view, which is shown while something is loaded
resetApp ==
    /\ ~IsNull(loadMethod)
    /\ loadMethod' = Null
    /\ inspections' = <<>>
    /\ currentInspectionIndex' = 0
    /\ currentComparisonIndex' = 0
    /\ activeView' = "comparisons"
    /\ metrics' = EmptyMetrics
    /\ error' = ""
    /\ UNCHANGED <<processVars, uploadVars, sessionVars, loading, campaignDoc>>

Min(a, b) == IF a < b THEN a ELSE b
Max(a, b) == IF a > b THEN a ELSE b

\* navigation is bound to the keys and buttons of the comparisons view
CanNavigate == ~IsNull(loadMethod) /\ activeView = "comparisons"

\* inspections[i] for a JavaScript index i is defined
HasInspection(i) == i >= 0 /\ i < Len(inspections)

goToPreviousComparison ==
    /\ CanNavigate
    /\ currentComparisonIndex' = Max(0, currentComparisonIndex - 1)
    /\ UNCHANGED <<processVars, uploadVars, sessionVars>>
    /\ UNCHANGED <<inspections, metrics, currentInspectionIndex, activeView, loadMethod, error, loading, campaignDoc>>

goToNextComparison ==
    /\ CanNavigate
    /\ IF ~HasInspection(currentInspectionIndex)
       THEN UNCHANGED currentComparisonIndex
       ELSE currentComparisonIndex' =
               Min(Len(inspections[currentInspectionIndex + 1].comparisons) - 1,
                   currentComparisonIndex + 1)
    /\ UNCHANGED <<processVars, uploadVars, sessionVars>>
    /\ UNCHANGED <<inspections, metrics, currentInspectionIndex, activeView, loadMethod, error, loading, campaignDoc>>

goToPrevInspection ==
    /\ CanNavigate
    /\ currentInspectionIndex' = Max(0, currentInspectionIndex - 1)
    /\ currentComparisonIndex' =
          IF currentInspectionIndex' # currentInspectionIndex THEN 0
          ELSE currentComparisonIndex
    /\ UNCHANGED <<processVars, uploadVars, sessionVars>>
    /\ UNCHANGED <<inspections, metrics, activeView, loadMethod, error, loading, campaignDoc>>

goToNextInspection ==
    /\ CanNavigate
    /\ currentInspectionIndex' = Min(Len(inspections) - 1, currentInspectionIndex + 1)
    /\ currentComparisonIndex' =
          IF currentInspectionIndex' # currentInspectionIndex THEN 0
          ELSE currentComparisonIndex
    /\ UNCHANGED <<processVars, uploadVars, sessionVars>>
    /\ UNCHANGED <<inspections, metrics, activeView, loadMethod, error, loading, campaignDoc>>

\* the session of the admin, who has chosen a file, or of a viewer
InitSession ==
    /\ inspection = Null
    /\ pc = "start"
    /\ rowsByKey = <<>>
    /\ originalsByCamSide = <<>>
    /\ groups = <<>>
    /\ \E u \in {AdminUser, ViewerUser(1)} :
          /\ SessionInit(u)
          /\ \E f \in (IF isAdmin(u) THEN SessionFiles ELSE {[ids |-> <<>>, rs |-> <<>>]}) :
                /\ inspectionIds = f.ids
                /\ responses = f.rs
    /\ requests = <<>>
    /\ fetchIndex = 1
    /\ processedInspections = <<>>
    /\ uploadPc = "idle"
    /\ AppInit

NextSession ==
    \/ SelectFile
    \/ StartUpload
    \/ FetchInspection
    \/ FinishUpload
    \/ RemoteUpload
    \/ onCampaignSnapshot
    \/ resetApp
    \/ goToPreviousComparison
    \/ goToNextComparison
    \/ goToPrevInspection
    \/ goToNextInspection

SpecSession == InitSession /\ [][NextSession]_vars

\* uploads of a file with one id
InitAlignment == InitUploadOver({<<InspectionId(1)>>}, AlignmentResponses)
SpecAlignment == InitAlignment /\ [][NextUpload]_vars

----------------------------------------------------------------------------
(* Votes *)

CURRENT_VERSION == <<"4", ".", "1">>

\* `${comparisonId}_${currentVersion}`
versionVoteKeyOf(comparisonId) == comparisonId \o <<"_">> \o CURRENT_VERSION

\* a document id that leaves the user out
voteDocIdOfComparison(comparisonId, uid) ==
    comparisonId \o <<"_">> \o CURRENT_VERSION

\* `${comparisonId}_${currentVersion}_${user.uid}`
voteDocIdOf(comparisonId, uid) ==
    comparisonId \o <<"_">> \o CURRENT_VERSION \o <<"_">> \o uid

\* a map with key k set to v, and with key k deleted
Put(m, k, v) == [x \in DOMAIN m \cup {k} |-> IF x = k THEN v ELSE m[x]]
Without(m, k) == [x \in DOMAIN m \ {k} |-> m[x]]

\* the document handleVote writes
voteDocOf(comparisonId, u, voteType) ==
    [comparisonId |-> comparisonId, version |-> CURRENT_VERSION,
     userId |-> u.uid, voteType |-> voteType]

\* the listener's aggregation over the documents of the current version
aggregateVotes(store) ==
    LET docs == {k \in DOMAIN store :
                    store[k].version = CURRENT_VERSION /\ store[k].comparisonId # <<>>}
        of(c) == {k \in docs : store[k].comparisonId = c}
        approvals(c) == Cardinality({k \in of(c) : store[k].voteType = "approve"})
    IN  [c \in {store[k].comparisonId : k \in docs} |->
            [approvals |-> approvals(c),
             rejections |-> Cardinality({k \in of(c) : store[k].voteType = "reject"}),
             total |-> Cardinality(of(c)),
             percentage |-> IF Cardinality(of(c)) > 0
                            THEN Quot(approvals(c) * 100, Cardinality(of(c)))
                            ELSE QZero]]

\* the comparisons of a loaded inspection, by id
VoteComparisonIds == {g.id : g \in {processInspectionData(recordTwoGroups)[i] : i \in 1..2}}

VoteTypes == {"approve", "reject"}

\* the users who vote from other sessions
OtherUsers == {ViewerUser(2)}

\* handleVote(comparisonId, voteType); the write may fail
handleVote ==
    /\ \E c \in VoteComparisonIds, t \in VoteTypes, written \in BOOLEAN :
          IF IsNull(user)
          THEN /\ attempt' = [op |-> "vote", comparisonId |-> c, outcome |-> "signedOut"]
               /\ UNCHANGED <<votesStore, userVotes, voters>>
          ELSE IF written
          THEN /\ votesStore' = Put(votesStore, voteDocIdOf(c, user.uid), voteDocOf(c, user, t))
               /\ userVotes' = Put(userVotes, versionVoteKeyOf(c), t)
               /\ voters' = Put(voters, <<user.uid, c>>, t)
               /\ attempt' = [op |-> "vote", comparisonId |-> c, outcome |-> "written"]
          ELSE /\ attempt' = [op |-> "vote", comparisonId |-> c, outcome |-> "failed"]
               /\ UNCHANGED <<votesStore, userVotes, voters>>
    /\ UNCHANGED <<processVars, uploadVars, appVars, user, votes>>

\* handleUnvote(comparisonId); the delete may fail
handleUnvote ==
    /\ \E c \in VoteComparisonIds, written \in BOOLEAN :
          IF IsNull(user)
          THEN /\ attempt' = [op |-> "unvote", comparisonId |-> c, outcome |-> "signedOut"]
               /\ UNCHANGED <<votesStore, userVotes, voters>>
          ELSE IF written
          THEN /\ votesStore' = Without(votesStore, voteDocIdOf(c, user.uid))
               /\ userVotes' = Without(userVotes, versionVoteKeyOf(c))
               /\ voters' = Without(voters, <<user.uid, c>>)
               /\ attempt' = [op |-> "unvote", comparisonId |-> c, outcome |-> "written"]
          ELSE /\ attempt' = [op |-> "unvote", comparisonId |-> c, outcome |-> "failed"]
               /\ UNCHANGED <<votesStore, userVotes, voters>>
    /\ UNCHANGED <<processVars, uploadVars, appVars, user, votes>>

\* a vote and an unvote written by handleVote and handleUnvote in the
\* session of another user
RemoteVote ==
    /\ \E u \in OtherUsers, c \in VoteComparisonIds, t \in VoteTypes :
          /\ votesStore' = Put(votesStore, voteDocIdOf(c, u.uid), voteDocOf(c, u, t))
          /\ voters' = Put(voters, <<u.uid, c>>, t)
    /\ UNCHANGED <<processVars, uploadVars, appVars, user, votes, userVotes, attempt>>

RemoteUnvote ==
    /\ \E u \in OtherUsers, c \in VoteComparisonIds :
          /\ votesStore' = Without(votesStore, voteDocIdOf(c, u.uid))
          /\ voters' = Without(voters, <<u.uid, c>>)
    /\ UNCHANGED <<processVars, uploadVars, appVars, user, votes, userVotes, attempt>>

\* the votes listener: a delivery of the collection as it is in the store
onVotesSnapshot ==
    /\ votes' = aggregateVotes(votesStore)
    /\ UNCHANGED <<processVars, uploadVars, appVars, user, votesStore, userVotes, voters, attempt>>

\* a session of a signed-in viewer, or of a visitor who is signed out
InitVotes ==
    /\ inspection = Null
    /\ pc = "start"
    /\ rowsByKey = <<>>
    /\ originalsByCamSide = <<>>
    /\ groups = <<>>
    /\ UploadIdle
    /\ AppInit
    /\ \E u \in {Null, ViewerUser(1)} : SessionInit(u)

NextVotes ==
    \/ handleVote
    \/ handleUnvote
    \/ RemoteVote
    \/ RemoteUnvote
    \/ onVotesSnapshot

SpecVotes == InitVotes /\ [][NextVotes]_vars

TypeOK ==
    /\ pc \in {"start", "done"}
    /\ uploadPc \in {"idle", "fetching", "done", "failed"}
    /\ fetchIndex \in 1..(Len(inspectionIds) + 1)
    /\ loading \in BOOLEAN

----------------------------------------------------------------------------
(* Vocabulary of the properties *)

Elems(seq) == {seq[i] : i \in 1..Len(seq)}

Returned == pc = "done"

\* the row a returned group was built from
RowOf(g) == rowsByKey[RowIndex(rowsByKey, g.metadata.groupKey)]

\* the candidates of a row at rendition r
ListAt(row, r) == IF r \in DOMAIN row.renditions THEN row.renditions[r] ELSE <<>>

\* slot i (1 = Previous, 2 = Latest) of group g displays candidate c
Shows(g, i, c) ==
    /\ g.images[i] = c.image
    /\ g.metadata.statuses[i] = c.status
    /\ g.metadata.sources[i] = Str(<<c.source>>)
    /\ g.metadata.actions[i] = Num(c.actions)
    /\ g.metadata.renditionData[i] =
          [imageType |-> c.imageType, isActive |-> c.isActive,
           activeImage |-> c.activeImage]

\* slot i of group g displays nothing
ShowsNothing(g, i) ==
    /\ IsNull(g.images[i])
    /\ IsNull(g.metadata.renditionData[i])
    /\ IsNull(g.metadata.cardInfo[i])

\* the raw entries in input order, each with the collection it comes from
InputEntries ==
    IF IsNull(inspection.uvpaintData) THEN <<>>
    ELSE [i \in 1..Len(inspection.uvpaintData.images) |->
             [img |-> inspection.uvpaintData.images[i], source |-> srcImages]]
         \o
         [i \in 1..Len(inspection.uvpaintData.uvpaintHistoryImages) |->
             [img |-> inspection.uvpaintData.uvpaintHistoryImages[i],
              source |-> srcHistory]]

\* the rendition number of a raw entry, Null when it has none
RenditionOf(x) ==
    LET given == IF ~IsNull(x.img.rendition) THEN x.img.rendition
                 ELSE IF x.source = srcImages THEN Num(3) ELSE Num(1)
    IN  IF IsNum(ToNumber(given)) THEN ToNumber(given) ELSE Null

\* the raw entry becomes a candidate
IsCandidate(x) ==
    /\ ~IsNull(x.img)
    /\ ~IsNull(x.img.pov)
    /\ bucketTypeOf(x.img.imageType) # "none"
    /\ ~IsNull(RenditionOf(x))

\* (bucket category, normalised camera, normalised side) of a raw entry
TripleOf(x) ==
    <<bucketTypeOf(x.img.imageType), normCam(x.img.pov.simulatedCamera),
      normSide(x.img.pov.simulatedCameraSide)>>

\* candidate c was made from raw entry x
MadeFrom(c, x) ==
    /\ c.pov = x.img.pov
    /\ c.imageType = x.img.imageType
    /\ c.activeImage = safeUrl(x.img.activeImage)
    /\ c.isActive = x.img.isActive
    /\ c.source = x.source

\* row holds, at rendition r, a candidate made from raw entry x
HoldsAt(row, r, x) == \E c \in Elems(ListAt(row, r)) : MadeFrom(c, x)

Holds(row, x) == \E r \in DOMAIN row.renditions : HoldsAt(row, r, x)

----------------------------------------------------------------------------
(* C2 *)

SecondOf(R) == IF R \ {MaxOf(R)} = {} THEN Null ELSE Num(MaxOf(R \ {MaxOf(R)}))

\* C2: in every returned group the Latest rendition number is the highest
\* rendition number among the group's candidates and the Latest slot displays
\* a candidate of that rendition; the Previous rendition number is the second
\* highest (null when there is only one) and the Previous slot displays a
\* candidate of that rendition (nothing when null); no slot displays a
\* candidate of a lower rendition, and the third slot carries no rendition
\* number.
C2_RenditionSlots ==
    Returned =>
        \A g \in Elems(groups) :
            LET row == RowOf(g)
                R == DOMAIN row.renditions
                second == SecondOf(R)
            IN  /\ R # {}
                /\ g.metadata.renditions[2] = Num(MaxOf(R))
                /\ g.metadata.renditions[1] = second
                /\ \E c \in Elems(ListAt(row, MaxOf(R))) : Shows(g, 2, c)
                /\ IF IsNull(second) THEN ShowsNothing(g, 1)
                   ELSE \E c \in Elems(ListAt(row, second.num)) : Shows(g, 1, c)
                /\ \A r \in R : \A c \in Elems(ListAt(row, r)) :
                      /\ r < MaxOf(R) => ~Shows(g, 2, c)
                      /\ (IsNull(second) \/ r < second.num) => ~Shows(g, 1, c)
                /\ ~IsNum(g.metadata.renditions[3])

\* renditions 1, 3 and 5 are present: Latest is 5, Previous is 3
C2_Witness ==
    /\ Returned
    /\ \E g \in Elems(groups) :
          /\ DOMAIN RowOf(g).renditions = {1, 3, 5}
          /\ g.metadata.renditions[1] = Num(3)
          /\ g.metadata.renditions[2] = Num(5)

----------------------------------------------------------------------------
(* C3 *)

\* C3: two candidates of one inspection are in the same group if and only
\* if they have the same (bucket category, normalised camera, normalised
\* side).
C3_SameGroupIffSameTriple ==
    Returned =>
        \A x \in Elems(InputEntries), y \in Elems(InputEntries) :
            (IsCandidate(x) /\ IsCandidate(y)) =>
                ((\E row \in Elems(rowsByKey) : Holds(row, x) /\ Holds(row, y))
                    <=> TripleOf(x) = TripleOf(y))

----------------------------------------------------------------------------
(* C4 *)

DifferOnlyInSerial(x, y) ==
    /\ x.img.pov.serialNumber # y.img.pov.serialNumber
    /\ x.source = y.source
    /\ x.img = [y.img EXCEPT !.pov.serialNumber = x.img.pov.serialNumber]

WithoutSerial(pov) == [pov EXCEPT !.serialNumber = Null]

\* C4: two candidates whose raw entries differ only in pov.serialNumber are
\* in the same candidate list (same group, same rendition number); when that
\* rendition is the group's Previous or Latest one the slot displays exactly
\* one candidate of that list, which is one of the two whenever the list
\* holds nothing but such entries; and the group of an entry is the group of
\* the same entry without its serial number.
C4_SerialIgnored ==
    Returned =>
        /\ \A x \in Elems(InputEntries) :
              IsCandidate(x) =>
                \A row \in Elems(rowsByKey) :
                    Holds(row, x) =>
                        row.key = createPOVKey(bucketTypeOf(x.img.imageType),
                                               WithoutSerial(x.img.pov))
        /\ \A x \in Elems(InputEntries), y \in Elems(InputEntries) :
              (DifferOnlyInSerial(x, y) /\ IsCandidate(x) /\ IsCandidate(y)) =>
                \E row \in Elems(rowsByKey) :
                    LET r == RenditionOf(x).num
                        list == ListAt(row, r)
                    IN  /\ HoldsAt(row, r, x) /\ HoldsAt(row, r, y)
                        /\ \A g \in Elems(groups) : \A i \in 1..2 :
                              (g.metadata.groupKey = row.key
                                 /\ g.metadata.renditions[i] = Num(r)) =>
                                /\ \E c \in Elems(list) : Shows(g, i, c)
                                /\ (\A c \in Elems(list) :
                                        MadeFrom(c, x) \/ MadeFrom(c, y)) =>
                                      \E c \in Elems(list) :
                                          MadeFrom(c, x) /\ Shows(g, i, c)

\* two entries that differ only in serial number collided and the Latest
\* slot displays one of them
C4_Witness ==
    /\ Returned
    /\ \E x \in Elems(InputEntries), y \in Elems(InputEntries) :
          /\ DifferOnlyInSerial(x, y) /\ IsCandidate(x) /\ IsCandidate(y)
          /\ \E g \in Elems(groups) :
                /\ Len(ListAt(RowOf(g), RenditionOf(x).num)) >= 2
                /\ HoldsAt(RowOf(g), RenditionOf(x).num, x)
                /\ HoldsAt(RowOf(g), RenditionOf(x).num, y)
                /\ g.metadata.renditions[2] = RenditionOf(x)
                /\ \E c \in Elems(ListAt(RowOf(g), RenditionOf(x).num)) :
                      MadeFrom(c, x) /\ Shows(g, 2, c)

----------------------------------------------------------------------------
(* C5 *)

SourcePoints(source) ==
    IF source = srcImages THEN 30 ELSE IF source = srcHistory THEN 10 ELSE 0

\* the score as C5 states it: 40 for a publish-flagged candidate
ClaimedScore(c) ==
    (IF ~IsNull(c.activeImage) THEN 100 ELSE 0)
    + (IF c.isActive /\ ~IsNull(c.activeImage) THEN 40 ELSE 0)
    + SourcePoints(c.source)

\* the score with 40 for isActive alone
ActiveScore(c) ==
    (IF ~IsNull(c.activeImage) THEN 100 ELSE 0)
    + (IF c.isActive THEN 40 ELSE 0)
    + SourcePoints(c.source)

\* C5 as stated: the candidate displayed in a Previous or Latest slot has
\* the maximum score among the candidates of that rendition, the score being
\* 100 for an active image, plus 40 if publish-flagged (isActive and active
\* image present), plus 30 / 10 for the current-pipeline / historical source.
C5_MaxClaimedScore ==
    Returned =>
        \A g \in Elems(groups) : \A i \in 1..2 :
            IsNum(g.metadata.renditions[i]) =>
                LET list == ListAt(RowOf(g), g.metadata.renditions[i].num)
                IN  \E c \in Elems(list) :
                        /\ Shows(g, i, c)
                        /\ \A d \in Elems(list) : ClaimedScore(d) <= ClaimedScore(c)

\* C5 amended: the same with a score of 100 for an active image, plus 40 if
\* isActive is true (whether or not an active image is present), plus 30 /
\* 10 for the source.
C5_MaxActiveScore ==
    Returned =>
        \A g \in Elems(groups) : \A i \in 1..2 :
            IsNum(g.metadata.renditions[i]) =>
                LET list == ListAt(RowOf(g), g.metadata.renditions[i].num)
                IN  \E c \in Elems(list) :
                        /\ Shows(g, i, c)
                        /\ \A d \in Elems(list) : ActiveScore(d) <= ActiveScore(c)

\* candidates of different scores collided and the displayed one is not the
\* first of the list
C5_Witness ==
    /\ Returned
    /\ \E g \in Elems(groups) :
          LET list == ListAt(RowOf(g), g.metadata.renditions[2].num)
          IN  /\ Len(list) >= 2
              /\ ActiveScore(list[1]) < ActiveScore(list[2])
              /\ Shows(g, 2, list[2])
              /\ ~Shows(g, 2, list[1])

----------------------------------------------------------------------------
(* C6 *)

\* the candidates of group key `key` at rendition r, as raw entries in input
\* order: uvpaintData.images in array order, then uvpaintHistoryImages
RECURSIVE Colliding(_, _, _)
Colliding(entries, key, r) ==
    IF entries = <<>> THEN <<>>
    ELSE LET x == Head(entries)
             in == /\ IsCandidate(x)
                   /\ createPOVKey(bucketTypeOf(x.img.imageType), x.img.pov) = key
                   /\ RenditionOf(x) = Num(r)
         IN  (IF in THEN <<x>> ELSE <<>>) \o Colliding(Tail(entries), key, r)

EntryScore(x) ==
    ActiveScore([activeImage |-> safeUrl(x.img.activeImage),
                 isActive |-> x.img.isActive, source |-> x.source])

\* slot i of group g displays the candidate of raw entry x
ShowsEntry(g, i, x) ==
    /\ g.images[i] = safeUrl(x.img.activeImage)
    /\ g.metadata.sources[i] = Str(<<x.source>>)
    /\ ~IsNull(g.metadata.renditionData[i])
    /\ g.metadata.renditionData[i].isActive = x.img.isActive
    /\ g.metadata.renditionData[i].imageType = x.img.imageType

\* C6: a Previous or Latest slot displays, among the colliding candidates of
\* its rendition that have the highest score, the one that is earliest in
\* input order (images in array order, then uvpaintHistoryImages in array
\* order).
C6_TieEarliestInInput ==
    Returned =>
        \A g \in Elems(groups) : \A i \in 1..2 :
            IsNum(g.metadata.renditions[i]) =>
                LET list == Colliding(InputEntries, g.metadata.groupKey,
                                      g.metadata.renditions[i].num)
                    best == {k \in 1..Len(list) :
                                \A j \in 1..Len(list) :
                                    EntryScore(list[j]) <= EntryScore(list[k])}
                IN  /\ best # {}
                    /\ ShowsEntry(g, i, list[CHOOSE k \in best :
                                                \A j \in best : k <= j])

\* two candidates with different images tie for the highest score and the
\* earlier one is displayed
C6_Witness ==
    /\ Returned
    /\ \E g \in Elems(groups) : \E i \in 1..2 :
          /\ IsNum(g.metadata.renditions[i])
          /\ LET list == Colliding(InputEntries, g.metadata.groupKey,
                                   g.metadata.renditions[i].num)
             IN  /\ Len(list) = 2
                 /\ EntryScore(list[1]) = EntryScore(list[2])
                 /\ safeUrl(list[1].img.activeImage)
                       # safeUrl(list[2].img.activeImage)
                 /\ ShowsEntry(g, i, list[1])
                 /\ ~ShowsEntry(g, i, list[2])

----------------------------------------------------------------------------
(* C7 *)

PublishFlagged(c) == c.isActive /\ ~IsNull(c.activeImage)

\* C7: metadata.published of a returned group is true if and only if the
\* candidate displayed in its Previous slot or the one displayed in its
\* Latest slot has isActive true and a non-empty active image; the third
\* slot carries no rendition data.
C7_PublishedIffSlotFlagged ==
    Returned =>
        \A g \in Elems(groups) :
            /\ IsNull(g.metadata.renditionData[3])
            /\ g.metadata.published <=>
                  \E i \in 1..2 :
                      /\ IsNum(g.metadata.renditions[i])
                      /\ \E c \in Elems(ListAt(RowOf(g),
                                               g.metadata.renditions[i].num)) :
                            Shows(g, i, c) /\ PublishFlagged(c)

\* a group published through its Previous slot alone
C7_Witness ==
    /\ Returned
    /\ \E g \in Elems(groups) :
          /\ g.metadata.published
          /\ ~IsNull(g.metadata.renditionData[1])
          /\ g.metadata.renditionData[1].isActive
          /\ ~IsNull(g.images[1])
          /\ ~(g.metadata.renditionData[2].isActive /\ ~IsNull(g.images[2]))

\* an unpublished group holding a publish-flagged candidate of an older
\* rendition that no slot displays
C7_UnchosenWitness ==
    /\ Returned
    /\ \E g \in Elems(groups) :
          /\ ~g.metadata.published
          /\ \E r \in DOMAIN RowOf(g).renditions :
                /\ Num(r) # g.metadata.renditions[1]
                /\ Num(r) # g.metadata.renditions[2]
                /\ \E c \in Elems(ListAt(RowOf(g), r)) : PublishFlagged(c)

----------------------------------------------------------------------------
(* C8 *)

GroupCam(g) == normCam(g.metadata.pov.simulatedCamera)
GroupSide(g) == normSide(g.metadata.pov.simulatedCameraSide)
GroupCamSide(g) == GroupCam(g).str \o <<"_">> \o GroupSide(g).str

----------------------------------------------------------------------------
(* C9 *)

\* the raw entry may enter the index of originals
Qualifies(x) ==
    /\ ~IsNull(x.img)
    /\ ~IsNull(x.img.pov)
    /\ isSlimOverview(x.img.imageType)
    /\ ~IsNull(normCam(x.img.pov.simulatedCamera))
    /\ ~IsNull(normSide(x.img.pov.simulatedCameraSide))
    /\ ~IsNull(pickOriginalUrl(x.img))

CamSideOf(x) ==
    normCam(x.img.pov.simulatedCamera).str \o <<"_">>
        \o normSide(x.img.pov.simulatedCameraSide).str

\* the qualifying entries of one collection at one (camera, side), in array
\* order
RECURSIVE QualifyingAt(_, _, _)
QualifyingAt(entries, source, key) ==
    IF entries = <<>> THEN <<>>
    ELSE LET x == Head(entries)
         IN  (IF x.source = source /\ Qualifies(x) /\ CamSideOf(x) = key
              THEN <<x>> ELSE <<>>)
             \o QualifyingAt(Tail(entries), source, key)

----------------------------------------------------------------------------
(* C10 *)

BucketRank(g) == IF g.metadata.bucketType = "SlimOverview" THEN 0 ELSE 1
PublishedRank(g) == IF g.metadata.published THEN 0 ELSE 1

\* a may stand before b in the returned list
InOrder(a, b) ==
    LET ca == CharsOf(GroupCam(a))
        cb == CharsOf(GroupCam(b))
        sa == CharsOf(GroupSide(a))
        sb == CharsOf(GroupSide(b))
    IN  \/ PublishedRank(a) < PublishedRank(b)
        \/ /\ PublishedRank(a) = PublishedRank(b)
           /\ \/ BucketRank(a) < BucketRank(b)
              \/ /\ BucketRank(a) = BucketRank(b)
                 /\ \/ localeCompare(ca, cb) < 0
                    \/ /\ localeCompare(ca, cb) = 0
                       /\ localeCompare(sa, sb) <= 0

\* C10: the returned list is sorted: published groups before unpublished
\* ones, and within one published status in ascending order of (bucket rank
\* with SlimOverview before Zoomer, normalised camera, normalised side).
C10_Sorted ==
    Returned =>
        \A i \in 1..Len(groups) : \A j \in 1..Len(groups) :
            i < j => InOrder(groups[i], groups[j])

\* at least three groups, published and unpublished, of both buckets, come
\* back in an order that is not the order their rows were created in
C10_Witness ==
    /\ Returned
    /\ Len(groups) >= 3
    /\ \E g \in Elems(groups) : g.metadata.published
    /\ \E g \in Elems(groups) : ~g.metadata.published
    /\ \E g \in Elems(groups) : BucketRank(g) = 0
    /\ \E g \in Elems(groups) : BucketRank(g) = 1
    /\ [i \in 1..Len(groups) |-> groups[i].metadata.groupKey]
          # [i \in 1..Len(rowsByKey) |-> rowsByKey[i].key]

----------------------------------------------------------------------------
(* C11 *)

PermutationsOf(n) ==
    {f \in [1..n -> 1..n] : \A i \in 1..n : \A j \in 1..n : f[i] = f[j] => i = j}

\* the groups in the order their rows were created in, before groups.sort
BuiltGroups == buildGroups(inspection, originalsByCamSide, rowsByKey)

\* C11: no two distinct returned groups compare as equal under the sort
\* comparator, and sorting the groups from any insertion order gives the
\* returned list.
C11_TotalOrder ==
    Returned =>
        /\ \A i \in 1..Len(groups) : \A j \in 1..Len(groups) :
              i # j => compareGroups(groups[i], groups[j]) # 0
        /\ LET built == BuiltGroups
           IN  \A f \in PermutationsOf(Len(built)) :
                  sortGroups(<<>>, [k \in 1..Len(built) |-> built[f[k]]]) = groups

\* three groups, two of them of one bucket and one published status, come
\* back in an order that is not their insertion order
C11_Witness ==
    /\ Returned
    /\ Len(groups) >= 3
    /\ \E i \in 1..Len(groups) : \E j \in 1..Len(groups) :
          /\ i # j
          /\ groups[i].metadata.published = groups[j].metadata.published
          /\ groups[i].metadata.bucketType = groups[j].metadata.bucketType
    /\ BuiltGroups # groups

----------------------------------------------------------------------------
(* Vocabulary of the properties of an upload *)

\* the upload has ended and its inspections are loaded
Uploaded == uploadPc = "done"

\* the positions <<inspection, comparison>> of the loaded groups
LoadedPositions ==
    UNION {{<<k, i>> : i \in 1..Len(inspections[k].comparisons)} :
              k \in 1..Len(inspections)}

GroupAt(p) == inspections[p[1]].comparisons[p[2]]

----------------------------------------------------------------------------
(* C12 *)

\* C12: after an upload no two groups of the loaded inspection set, of one
\* inspection or of two, have the same id.
C12_GroupIdsUnique ==
    Uploaded =>
        \A p \in LoadedPositions : \A q \in LoadedPositions :
            p # q => GroupAt(p).id # GroupAt(q).id

----------------------------------------------------------------------------
(* C13 *)

\* the comparisons whose slot i (1 = Previous, 2 = Latest) has an action count
WithCount(comps, i) == {k \in 1..Len(comps) : IsNum(comps[k].metadata.actions[i])}

RECURSIVE SlotSum(_, _, _)
SlotSum(comps, K, i) ==
    IF K = {} THEN 0
    ELSE LET k == CHOOSE x \in K : TRUE
         IN  comps[k].metadata.actions[i].num + SlotSum(comps, K \ {k}, i)

\* the mean action count of slot i over comps, 0 when no slot has a count
SlotMean(comps, i) ==
    IF WithCount(comps, i) = {} THEN QZero
    ELSE Quot(SlotSum(comps, WithCount(comps, i), i),
              Cardinality(WithCount(comps, i)))

\* the percent change as C13 states it
StatedPercentChange(previous, latest) ==
    IF previous = QZero /\ latest = QZero THEN QZero
    ELSE IF previous = QZero THEN Quot(100, 1)
    ELSE QTimes(QDiv(QSub(latest, previous), previous), 100)

DeltaAsStated(row) ==
    /\ row.actionsDifference = QSub(row.avgLatestActions, row.avgPreviousActions)
    /\ row.actionsPercentChange =
          StatedPercentChange(row.avgPreviousActions, row.avgLatestActions)

\* C13: in every row of Table A and of Table D actionsDifference is the
\* latest mean minus the previous mean, and the percent change is 0 when
\* both means are 0, 100 when the previous mean is 0 and the latest is not,
\* and (latest - previous) / previous * 100 otherwise; the means of a Table A
\* row are those of the Previous and Latest action counts of the
\* inspection's groups, the means of a Table D row those of its totals and
\* counts.
C13_PercentChange ==
    Uploaded =>
        /\ \A k \in 1..Len(metrics.tableA) :
              /\ DeltaAsStated(metrics.tableA[k])
              /\ metrics.tableA[k].avgPreviousActions =
                    SlotMean(inspections[k].comparisons, 1)
              /\ metrics.tableA[k].avgLatestActions =
                    SlotMean(inspections[k].comparisons, 2)
        /\ \A k \in 1..Len(metrics.tableD) :
              LET row == metrics.tableD[k]
              IN  /\ DeltaAsStated(row)
                  /\ row.previousCount > 0 =>
                        row.avgPreviousActions =
                            Quot(row.previousTotalActions, row.previousCount)
                  /\ row.previousCount = 0 => row.avgPreviousActions = QZero
                  /\ row.latestCount > 0 =>
                        row.avgLatestActions =
                            Quot(row.latestTotalActions, row.latestCount)
                  /\ row.latestCount = 0 => row.avgLatestActions = QZero

\* the three cases at once: a Table A row with previous 10 and latest 5 at
\* -50, a Table A row with previous 0 and a nonzero latest at 100, and a
\* Table D row with both means 0 at 0
C13_Witness ==
    /\ Uploaded
    /\ \E k \in 1..Len(metrics.tableA) :
          /\ metrics.tableA[k].avgPreviousActions = Quot(10, 1)
          /\ metrics.tableA[k].avgLatestActions = Quot(5, 1)
          /\ metrics.tableA[k].actionsDifference = Quot(-5, 1)
          /\ metrics.tableA[k].actionsPercentChange = Quot(-50, 1)
    /\ \E k \in 1..Len(metrics.tableA) :
          /\ metrics.tableA[k].avgPreviousActions = QZero
          /\ metrics.tableA[k].avgLatestActions # QZero
          /\ metrics.tableA[k].actionsPercentChange = Quot(100, 1)
    /\ \E k \in 1..Len(metrics.tableD) :
          /\ metrics.tableD[k].avgPreviousActions = QZero
          /\ metrics.tableD[k].avgLatestActions = QZero
          /\ metrics.tableD[k].actionsPercentChange = QZero

----------------------------------------------------------------------------
(* C14 *)

\* the Previous / Latest slots of comps whose displayed candidate is
\* publish-flagged: isActive with an active image
FlaggedSlots(comps) ==
    UNION {{<<k, i>> : i \in {j \in 1..2 :
                                /\ ~IsNull(comps[k].metadata.renditionData[j])
                                /\ PublishFlagged(comps[k].metadata.renditionData[j])}} :
              k \in 1..Len(comps)}

\* the mismatch entries recorded for the k-th loaded inspection
MismatchesOf(k) ==
    {j \in 1..Len(metrics.validation.mismatches) :
        metrics.validation.mismatches[j].inspectionIndex = k}

\* C14: the validation holds a mismatch entry for a loaded inspection if and
\* only if the publish count of its Table A row differs from the number of
\* publish-flagged Previous / Latest slots of its groups; the entry carries
\* both counts and their nonzero absolute gap; and breakdown.byInspection
\* has exactly one entry per loaded inspection, in order.
C14_MismatchIffCountsDiffer ==
    Uploaded =>
        LET v == metrics.validation
        IN  /\ Len(v.breakdown.byInspection) = Len(inspections)
            /\ \A k \in 1..Len(inspections) :
                  LET metricsCount == metrics.tableA[k].publishedCount
                      cardCount == Cardinality(FlaggedSlots(inspections[k].comparisons))
                  IN  /\ v.breakdown.byInspection[k].inspectionIndex = k
                      /\ v.breakdown.byInspection[k].inspectionId =
                            inspections[k].inspectionId
                      /\ v.breakdown.byInspection[k].metricsPublished = metricsCount
                      /\ v.breakdown.byInspection[k].cardPublished = cardCount
                      /\ (MismatchesOf(k) # {}) <=> (metricsCount # cardCount)
                      /\ Cardinality(MismatchesOf(k)) <= 1
                      /\ \A j \in MismatchesOf(k) :
                            /\ v.mismatches[j].inspectionId = inspections[k].inspectionId
                            /\ v.mismatches[j].metricsCount = metricsCount
                            /\ v.mismatches[j].cardPublishedCount = cardCount
                            /\ v.mismatches[j].difference = Abs(metricsCount - cardCount)
                            /\ v.mismatches[j].difference > 0

\* one inspection with more flagged slots than published images has a
\* mismatch entry, another with one of each has none
C14_Witness ==
    /\ Uploaded
    /\ \E k \in 1..Len(inspections) :
          /\ MismatchesOf(k) # {}
          /\ metrics.tableA[k].publishedCount
                < Cardinality(FlaggedSlots(inspections[k].comparisons))
    /\ \E k \in 1..Len(inspections) :
          /\ MismatchesOf(k) = {}
          /\ metrics.tableA[k].publishedCount = 1
          /\ Cardinality(FlaggedSlots(inspections[k].comparisons)) = 1

----------------------------------------------------------------------------
(* C15 *)

\* the raw entries of both collections of a raw inspection
RawEntriesOf(raw) ==
    IF IsNull(raw.uvpaintData) THEN {}
    ELSE Elems(raw.uvpaintData.images) \cup Elems(raw.uvpaintData.uvpaintHistoryImages)

\* isActive is true and an active image is present
RawPublishFlagged(img) ==
    ~IsNull(img) /\ img.isActive /\ ~IsNull(safeUrl(img.activeImage))

\* C15: a loaded inspection whose raw data holds a publish-flagged entry
\* without a POV, which no group takes, has a mismatch entry with a nonzero
\* difference.
C15_NoPovReported ==
    Uploaded =>
        \A k \in 1..Len(inspections) :
            (\E img \in RawEntriesOf(inspections[k].rawInspection) :
                RawPublishFlagged(img) /\ IsNull(img.pov))
            => \E j \in MismatchesOf(k) :
                  metrics.validation.mismatches[j].difference > 0

----------------------------------------------------------------------------
(* C16 *)

\* the raw entries of both collections, the current-pipeline ones first
RawEntrySeq(raw) ==
    IF IsNull(raw.uvpaintData) THEN <<>>
    ELSE raw.uvpaintData.images \o raw.uvpaintData.uvpaintHistoryImages

\* candidate extraction accepts the raw entry
Accepted(img) ==
    /\ ~IsNull(img)
    /\ img.imageType # Str(sArtemis)
    /\ ~IsNull(img.pov)
    /\ bucketTypeOf(img.imageType) # "none"

\* the positions of the publish-flagged candidates of a raw inspection
FlaggedCandidates(raw) ==
    {i \in 1..Len(RawEntrySeq(raw)) :
        Accepted(RawEntrySeq(raw)[i]) /\ RawPublishFlagged(RawEntrySeq(raw)[i])}

RECURSIVE ActionSum(_, _)
ActionSum(entries, K) ==
    IF K = {} THEN 0
    ELSE LET k == CHOOSE x \in K : TRUE
         IN  sumActionMap(entries[k].actionsCounterMap) + ActionSum(entries, K \ {k})

\* C16: the Table A row of a loaded inspection counts the publish-flagged
\* candidates of both collections of its raw data as publishedCount, those
\* of them with a nonzero action sum as imagesWithActions, and has their
\* total action sum divided by publishedCount as avgActionsPerImage (0 when
\* publishedCount is 0).
C16_PublishedCountBothCollections ==
    Uploaded =>
        \A k \in 1..Len(inspections) :
            LET raw == inspections[k].rawInspection
                flagged == FlaggedCandidates(raw)
                row == metrics.tableA[k]
            IN  /\ row.publishedCount = Cardinality(flagged)
                /\ row.imagesWithActions =
                      Cardinality({i \in flagged :
                          sumActionMap(RawEntrySeq(raw)[i].actionsCounterMap) # 0})
                /\ row.avgActionsPerImage =
                      IF flagged = {} THEN QZero
                      ELSE Quot(ActionSum(RawEntrySeq(raw), flagged),
                                Cardinality(flagged))

----------------------------------------------------------------------------
(* C17 *)

\* C17: the rows of Table D are in descending order of avgLatestActions.
C17_TableDByLatestMean ==
    Uploaded =>
        \A k \in 1..(Len(metrics.tableD) - 1) :
            ~QLess(metrics.tableD[k].avgLatestActions,
                   metrics.tableD[k + 1].avgLatestActions)

----------------------------------------------------------------------------
(* C18 *)

\* (bucket category, camera, side, camera id), "N/A" for an absent value
ViewKey(bucketType, pov) ==
    <<BucketName(bucketType),
      OrElse(pov.simulatedCamera, Str(sNA)),
      OrElse(pov.simulatedCameraSide, Str(sNA)),
      OrElse(pov.originalCameraId, Str(sNA))>>

GroupViewKey(g) == ViewKey(g.metadata.bucketType, g.metadata.pov)

\* the positions <<inspection, image>> of the published images: the
\* publish-flagged candidates of the current-pipeline collections
PublishedImagePositions ==
    UNION {{<<k, i>> : i \in {j \in 1..Len(inspections[k].rawInspection.uvpaintData.images) :
                                LET img == inspections[k].rawInspection.uvpaintData.images[j]
                                IN  Accepted(img) /\ RawPublishFlagged(img)}} :
              k \in {n \in 1..Len(inspections) :
                        ~IsNull(inspections[n].rawInspection.uvpaintData)}}

ImageAt(p) == inspections[p[1]].rawInspection.uvpaintData.images[p[2]]

ImageViewKey(img) == ViewKey(bucketTypeOf(img.imageType), img.pov)

RowViewKey(row) ==
    <<row.imageType, row.simulatedCamera, row.simulatedCameraSide,
      row.originalCameraId>>

\* the sum of the action counts of slot i over the groups at positions P
RECURSIVE GroupSlotSum(_, _)
GroupSlotSum(P, i) ==
    IF P = {} THEN 0
    ELSE LET p == CHOOSE x \in P : TRUE
         IN  GroupAt(p).metadata.actions[i].num + GroupSlotSum(P \ {p}, i)

\* C18: Table D has exactly one row for every (bucket category, camera,
\* side, camera id) of a loaded group or of a published image and no other
\* row; the Previous and Latest counts and totals of the row are those of
\* all loaded groups with that key, and its image count is the number of
\* published images with that key.
C18_OneRowPerViewKey ==
    Uploaded =>
        /\ {RowViewKey(metrics.tableD[k]) : k \in 1..Len(metrics.tableD)}
              = {GroupViewKey(GroupAt(p)) : p \in LoadedPositions}
                \cup {ImageViewKey(ImageAt(p)) : p \in PublishedImagePositions}
        /\ \A i \in 1..Len(metrics.tableD) : \A j \in 1..Len(metrics.tableD) :
              i # j => RowViewKey(metrics.tableD[i]) # RowViewKey(metrics.tableD[j])
        /\ \A k \in 1..Len(metrics.tableD) :
              LET row == metrics.tableD[k]
                  P == {p \in LoadedPositions : GroupViewKey(GroupAt(p)) = RowViewKey(row)}
                  P1 == {p \in P : IsNum(GroupAt(p).metadata.actions[1])}
                  P2 == {p \in P : IsNum(GroupAt(p).metadata.actions[2])}
              IN  /\ row.previousCount = Cardinality(P1)
                  /\ row.previousTotalActions = GroupSlotSum(P1, 1)
                  /\ row.latestCount = Cardinality(P2)
                  /\ row.latestTotalActions = GroupSlotSum(P2, 2)
                  /\ row.images =
                        Cardinality({p \in PublishedImagePositions :
                                        ImageViewKey(ImageAt(p)) = RowViewKey(row)})

----------------------------------------------------------------------------
(* C19 *)

\* the counts and means of a Table A row
RollupValues(row) ==
    [publishedCount |-> row.publishedCount,
     imagesWithActions |-> row.imagesWithActions,
     avgActionsPerImage |-> row.avgActionsPerImage,
     avgPreviousActions |-> row.avgPreviousActions,
     avgLatestActions |-> row.avgLatestActions,
     actionsDifference |-> row.actionsDifference,
     actionsPercentChange |-> row.actionsPercentChange]

\* C19: for every permutation of the loaded inspections,
\* computeAggregatedMetrics returns the same set of Table D rows as the
\* metrics held, and for each inspection a Table A row with the same counts
\* and means.
C19_OrderIndependent ==
    Uploaded =>
        \A f \in PermutationsOf(Len(inspections)) :
            LET permuted == computeAggregatedMetrics(
                                [k \in 1..Len(inspections) |-> inspections[f[k]]])
            IN  /\ Elems(permuted.tableD) = Elems(metrics.tableD)
                /\ \A k \in 1..Len(inspections) :
                      RollupValues(permuted.tableA[k])
                         = RollupValues(metrics.tableA[f[k]])

\* two loaded inspections with different action counts feed one Table D row
C19_Witness ==
    /\ Uploaded
    /\ Len(inspections) >= 2
    /\ \E k \in 1..Len(metrics.tableD) :
          /\ metrics.tableD[k].previousCount >= 2
          /\ metrics.tableD[k].latestCount >= 2
    /\ RollupValues(metrics.tableA[1]) # RollupValues(metrics.tableA[2])

----------------------------------------------------------------------------
(* C20 *)

\* the ids among the first n of the list whose request was answered with a
\* record, in list order
RECURSIVE SucceededBefore(_)
SucceededBefore(n) ==
    IF n = 0 THEN <<>>
    ELSE SucceededBefore(n - 1)
         \o (IF responses[n].kind = "record" THEN <<inspectionIds[n]>> ELSE <<>>)

ProcessedIds ==
    [k \in 1..Len(processedInspections) |-> processedInspections[k].inspectionId]

\* C20: the ids are requested one at a time in list order; at every point of
\* the loop the processed inspections are those of the ids requested so far
\* whose request was answered with a record, in list order; and when the
\* loop has ended every listed id has been requested, whatever the answers
\* to the earlier ones, and a successful upload loads exactly the processed
\* inspections.
C20_FailureSkipsOnlyThatId ==
    /\ uploadPc = "fetching" =>
          /\ requests = SubSeq(inspectionIds, 1, fetchIndex - 1)
          /\ ProcessedIds = SucceededBefore(fetchIndex - 1)
    /\ (uploadPc \in {"done", "failed"} /\ inspectionIds # <<>>) =>
          /\ requests = inspectionIds
          /\ ProcessedIds = SucceededBefore(Len(inspectionIds))
    /\ uploadPc = "done" => inspections = processedInspections
    /\ \A k \in 1..Len(processedInspections) :
          \E n \in 1..Len(inspectionIds) :
              /\ responses[n].kind = "record"
              /\ processedInspections[k].rawInspection = responses[n].inspection

\* an upload has ended in which a failed request came before one that was
\* answered with a record, which is loaded
C20_Witness ==
    /\ Uploaded
    /\ \E i \in 1..Len(inspectionIds) : \E j \in 1..Len(inspectionIds) :
          /\ i < j
          /\ responses[i].kind # "record"
          /\ responses[j].kind = "record"
          /\ \E k \in 1..Len(inspections) :
                /\ inspections[k].inspectionId = inspectionIds[j]
                /\ inspections[k].rawInspection = responses[j].inspection
    /\ requests = inspectionIds
    /\ Len(inspections) < Len(inspectionIds)

----------------------------------------------------------------------------
(* C21 *)

\* a step of handleCSVUpload
UploadStep == uploadVars' # uploadVars

\* the step that ends an upload whose file has no ids or whose loop has
\* processed nothing
EndsWithNothing ==
    \/ uploadPc = "idle" /\ uploadPc' # "idle" /\ inspectionIds = <<>>
    \/ uploadPc = "fetching" /\ uploadPc' # "fetching" /\ processedInspections = <<>>

\* C21: an upload whose file yields no ids, or that processes no
\* inspection, ends failed with the error message set and the loading flag
\* cleared, and none of its steps changes the loaded inspections, the
\* metrics, the navigation indices, the load method or the campaign document.
C21_FailedUploadLeavesState ==
    [][/\ EndsWithNothing =>
            /\ uploadPc' = "failed"
            /\ error' \in {"No inspection IDs found in CSV", "No valid inspections could be processed"}
            /\ loading' = FALSE
       /\ UploadStep /\ uploadPc' # "done" =>
            UNCHANGED <<inspections, metrics, currentInspectionIndex, currentComparisonIndex, loadMethod, campaignDoc>>]_vars

\* reached: every request of an upload has failed, the upload has ended
\* with the error, and the campaign document of an earlier upload is there
C21_Witness ==
    /\ uploadPc = "failed"
    /\ requests # <<>>
    /\ processedInspections = <<>>
    /\ error = "No valid inspections could be processed"
    /\ ~loading
    /\ ~IsNull(campaignDoc)

----------------------------------------------------------------------------
(* C22 *)

\* the three conditions under which the extraction takes a raw entry
PassesFilter(x) ==
    /\ ~IsNull(x.img)
    /\ x.img.imageType # Str(tArtemis)
    /\ ~IsNull(x.img.pov)
    /\ bucketTypeOf(x.img.imageType) \in {"SlimOverview", "Zoomer"}

\* the rendition number an accepted entry is to be filed under: its own
\* number, or the default of its collection when it has none
FiledUnder(x) ==
    IF IsNull(x.img.rendition)
    THEN (IF x.source = srcImages THEN Num(3) ELSE Num(1))
    ELSE ToNumber(x.img.rendition)

\* the row of the viewpoint of raw entry x, 0 when there is none
RowOfEntry(x) ==
    RowIndex(rowsByKey, createPOVKey(bucketTypeOf(x.img.imageType), x.img.pov))

----------------------------------------------------------------------------
(* C23 *)

\* the raw entries of the viewpoint of row k
EntriesOfRow(k) == {x \in Elems(InputEntries) : PassesFilter(x) /\ RowOfEntry(x) = k}

\* C23: every returned group has a Latest rendition number under which its
\* row holds a candidate that the Latest slot displays, a Previous number,
\* when there is one, is smaller than the Latest one, and a viewpoint whose
\* entries all carry a non-numeric rendition yields no group.
C23_NoGroupWithoutRendition ==
    Returned =>
        /\ \A g \in Elems(groups) :
              /\ IsNum(g.metadata.renditions[2])
              /\ g.metadata.renditions[2].num \in DOMAIN RowOf(g).renditions
              /\ \E c \in Elems(ListAt(RowOf(g), g.metadata.renditions[2].num)) : Shows(g, 2, c)
              /\ \/ IsNull(g.metadata.renditions[1])
                 \/ /\ IsNum(g.metadata.renditions[1])
                    /\ g.metadata.renditions[1].num < g.metadata.renditions[2].num
        /\ \A k \in 1..Len(rowsByKey) :
              (\A x \in EntriesOfRow(k) : ~IsNum(FiledUnder(x))) =>
                 \A g \in Elems(groups) : g.metadata.groupKey # rowsByKey[k].key

\* reached: a viewpoint with non-numeric renditions only has a row and no
\* group, next to a group with a Previous and a Latest rendition
C23_Witness ==
    /\ Returned
    /\ \E k \in 1..Len(rowsByKey) :
          /\ EntriesOfRow(k) # {}
          /\ \A x \in EntriesOfRow(k) : ~IsNum(FiledUnder(x))
    /\ \E g \in Elems(groups) : IsNum(g.metadata.renditions[1])

----------------------------------------------------------------------------
(* C24 *)

\* C24: for every camera, side and image type of the input, normCam
\* returns front, rear, center or null, normSide returns left, right,
\* center or null, and the bucket classification returns SlimOverview,
\* Zoomer or null.
C24_ClosedOutputSets ==
    Returned =>
        \A x \in Elems(InputEntries) :
            /\ normCam(x.img.pov.simulatedCamera) \in {Str(sFront), Str(sRear), Str(sCenter), Null}
            /\ normSide(x.img.pov.simulatedCameraSide) \in {Str(sLeft), Str(sRight), Str(sCenter), Null}
            /\ bucketTypeOf(x.img.imageType) \in {"SlimOverview", "Zoomer", "none"}

----------------------------------------------------------------------------
(* C25 *)

\* the inspection of the scenario: images holds one SlimOverview
\* Front/Left entry of rendition 3 with active image u1, isActive and 2
\* actions, uvpaintHistoryImages one of rendition 1 with active image u0
\* and 1 action
IsScenario(raw) ==
    /\ ~IsNull(raw.uvpaintData)
    /\ raw.uvpaintData.images =
          <<Entry(Str(tSlimOverview), Pov(Str(cFront), Str(dLeft), Num(1)), Num(3),
                  Str(<<"u", "1">>), TRUE, Null, Null, Null, [map |-> <<Num(2)>>])>>
    /\ raw.uvpaintData.uvpaintHistoryImages =
          <<Entry(Str(tSlimOverview), Pov(Str(cFront), Str(dLeft), Num(1)), Num(1),
                  Str(<<"u", "0">>), FALSE, Null, Null, Null, [map |-> <<Num(1)>>])>>

\* C25: the inspection of the scenario yields exactly one group, with
\* images [u0, u1, null], rendition numbers [1, 3, null] and published
\* true, and a Table A row with avgActionsPerImage 2, previous mean 1,
\* latest mean 2, difference 1 and percent change 100.
C25_EndToEnd ==
    Uploaded =>
        \A k \in 1..Len(inspections) :
            IsScenario(inspections[k].rawInspection) =>
                /\ Len(inspections[k].comparisons) = 1
                /\ inspections[k].comparisons[1].images =
                      <<Str(<<"u", "0">>), Str(<<"u", "1">>), Null>>
                /\ inspections[k].comparisons[1].metadata.renditions =
                      <<Num(1), Num(3), Null>>
                /\ inspections[k].comparisons[1].metadata.published = TRUE
                /\ metrics.tableA[k].publishedCount = 1
                /\ metrics.tableA[k].avgActionsPerImage = Quot(2, 1)
                /\ metrics.tableA[k].avgPreviousActions = Quot(1, 1)
                /\ metrics.tableA[k].avgLatestActions = Quot(2, 1)
                /\ metrics.tableA[k].actionsDifference = Quot(1, 1)
                /\ metrics.tableA[k].actionsPercentChange = Quot(100, 1)

\* reached: the scenario's inspection was uploaded on its own
C25_Witness ==
    /\ Uploaded
    /\ Len(inspections) = 1
    /\ IsScenario(inspections[1].rawInspection)
    /\ Len(metrics.tableA) = 1

----------------------------------------------------------------------------
(* C26 *)

\* C26: in every state of a session the metrics are the rollups of the
\* loaded inspection set: Table A has one row per loaded inspection, in
\* the order of the set and with its id, both tables are what
\* computeAggregatedMetrics yields for the set, and both are empty when
\* no inspection is loaded.
C26_MetricsOfLoadedSet ==
    /\ Len(metrics.tableA) = Len(inspections)
    /\ \A k \in 1..Len(inspections) :
          /\ metrics.tableA[k].inspectionIndex = k
          /\ metrics.tableA[k].inspectionId = inspections[k].inspectionId
    /\ metrics.tableA = computeAggregatedMetrics(inspections).tableA
    /\ metrics.tableD = computeAggregatedMetrics(inspections).tableD
    /\ inspections = <<>> => metrics.tableA = <<>> /\ metrics.tableD = <<>>

\* reached: a delivery has replaced a loaded set of two inspections, the
\* second of which was selected, by a set of one
C26_Witness ==
    /\ ~isAdmin(user)
    /\ loadMethod = Str(sFirebase)
    /\ Len(inspections) = 1
    /\ currentInspectionIndex = 1
    /\ Len(metrics.tableA) = 1

----------------------------------------------------------------------------
(* C27 *)

\* the raw entries of a record, each with the collection it comes from
SourcedEntries(raw) ==
    IF IsNull(raw.uvpaintData) THEN <<>>
    ELSE [i \in 1..Len(raw.uvpaintData.images) |->
             [img |-> raw.uvpaintData.images[i], source |-> srcImages]]
         \o
         [i \in 1..Len(raw.uvpaintData.uvpaintHistoryImages) |->
             [img |-> raw.uvpaintData.uvpaintHistoryImages[i], source |-> srcHistory]]

\* (bucket, camera, side) of an accepted entry and the rendition it is
\* filed under
Viewpoint(x) == TripleOf(x)
Placement(x) == <<TripleOf(x), FiledUnder(x)>>

\* the input is well formed: publish-flagged entries in images only, active
\* images absent or non-blank strings, renditions absent or numeric, no two
\* accepted entries at one (bucket, camera, side, rendition), at most two
\* renditions per viewpoint
WellFormed(raw) ==
    LET X == SourcedEntries(raw)
        A == {i \in 1..Len(X) : PassesFilter(X[i])}
    IN  /\ \A i \in 1..Len(X) :
              /\ X[i].source = srcHistory => ~RawPublishFlagged(X[i].img)
              /\ \/ IsNull(X[i].img.activeImage)
                 \/ IsStr(X[i].img.activeImage) /\ Trim(X[i].img.activeImage.str) # <<>>
              /\ IsNull(X[i].img.rendition) \/ IsNum(ToNumber(X[i].img.rendition))
        /\ \A i, j \in A : i # j => Placement(X[i]) # Placement(X[j])
        /\ \A i \in A :
              Cardinality({FiledUnder(X[j]) : j \in {k \in A : Viewpoint(X[k]) = Viewpoint(X[i])}}) <= 2

\* C27: for every uploaded inspection whose input is well formed the
\* validator reports no mismatch: the metrics publish count equals the
\* number of publish-flagged Previous and Latest slots of its groups.
C27_AlignedOnWellFormed ==
    Uploaded =>
        \A k \in 1..Len(inspections) :
            WellFormed(inspections[k].rawInspection) =>
                /\ MismatchesOf(k) = {}
                /\ metrics.validation.breakdown.byInspection[k].metricsPublished =
                      metrics.validation.breakdown.byInspection[k].cardPublished

----------------------------------------------------------------------------
(* C28 *)

\* the last index of the comparison list of the current inspection, 0 for
\* an inspection without comparisons
LastComparisonIndex ==
    Max(0, Len(inspections[currentInspectionIndex + 1].comparisons) - 1)

\* the indices designate an inspection of the loaded set and a position
\* within the bounds of its comparison list
IndicesInBounds ==
    /\ HasInspection(currentInspectionIndex)
    /\ currentComparisonIndex >= 0
    /\ currentComparisonIndex <= LastComparisonIndex

\* a step that leaves the loaded set and the upload alone
StepOnLoadedSet ==
    /\ inspections # <<>>
    /\ inspections' = inspections
    /\ uploadVars' = uploadVars

\* C28: in a session of the admin, while an inspection set is loaded, the
\* comparison index is never negative and never beyond the last index of
\* the current inspection's comparison list, and a step on the loaded set
\* that changes the inspection index sets the comparison index to 0.
C28_NavigationInBounds ==
    /\ [](isAdmin(user) /\ inspections # <<>> => IndicesInBounds)
    /\ [][isAdmin(user) /\ StepOnLoadedSet /\ currentInspectionIndex' # currentInspectionIndex
            => currentComparisonIndex' = 0]_vars

----------------------------------------------------------------------------
(* C29 *)

\* C29: in a session of a viewer, whenever the loaded set is not empty the
\* inspection index designates an inspection of the set and, when that
\* inspection has comparisons, the comparison index designates one of them.
C29_IndicesDesignateLoaded ==
    ~isAdmin(user) /\ inspections # <<>> =>
        /\ HasInspection(currentInspectionIndex)
        /\ Len(inspections[currentInspectionIndex + 1].comparisons) > 0 =>
              /\ currentComparisonIndex >= 0
              /\ currentComparisonIndex < Len(inspections[currentInspectionIndex + 1].comparisons)

----------------------------------------------------------------------------
(* C30 *)

\* the users whose latest operation on comparison c was a vote, and those
\* among them whose vote was of type t
VotersOf(c) == {k[1] : k \in {x \in DOMAIN voters : x[2] = c}}
VotersOfType(c, t) == {k[1] : k \in {x \in DOMAIN voters : x[2] = c /\ voters[x] = t}}

\* the aggregate of comparison c in an aggregation; absent means no votes
AggregateOf(agg, c) == IF c \in DOMAIN agg THEN agg[c] ELSE [approvals |-> 0, rejections |-> 0, total |-> 0, percentage |-> QZero]

\* an aggregation counts, for every comparison, the users whose latest
\* operation was a vote, each under the type of their latest vote
CountsLatestVotes(agg) == \A c \in VoteComparisonIds : LET a == AggregateOf(agg, c) IN a.total = Cardinality(VotersOf(c)) /\ a.approvals = Cardinality(VotersOfType(c, "approve")) /\ a.rejections = Cardinality(VotersOfType(c, "reject")) /\ a.approvals + a.rejections = a.total

\* the store holds at most one vote per user, comparison and version
OneVoteEach == \A k1, k2 \in DOMAIN votesStore : (votesStore[k1].userId = votesStore[k2].userId /\ votesStore[k1].comparisonId = votesStore[k2].comparisonId /\ votesStore[k1].version = votesStore[k2].version) => k1 = k2

\* the local vote status is the signed-in user's latest vote
LocalStatusIsOwnVote == \A c \in VoteComparisonIds : IF ~IsNull(user) /\ <<user.uid, c>> \in DOMAIN voters THEN versionVoteKeyOf(c) \in DOMAIN userVotes /\ userVotes[versionVoteKeyOf(c)] = voters[<<user.uid, c>>] ELSE versionVoteKeyOf(c) \notin DOMAIN userVotes

\* a call that was made signed out, or whose write failed
AttemptWithoutEffect == attempt' # attempt /\ attempt'.outcome \in {"signedOut", "failed"}

\* C30: each user holds at most one vote per comparison and version; what
\* the listener aggregates from the store, and what it has delivered to
\* the page, counts for every comparison the users whose latest operation
\* on it was a vote, under the type of their latest vote, with approvals
\* plus rejections equal to the total; and a vote or unvote made signed
\* out, or whose write fails, changes neither the store nor the local
\* vote status.
C30_OneVotePerUser == [](OneVoteEach /\ CountsLatestVotes(aggregateVotes(votesStore)) /\ LocalStatusIsOwnVote) /\ [][(votes' # votes => CountsLatestVotes(votes')) /\ (AttemptWithoutEffect => UNCHANGED <<votesStore, userVotes>>)]_vars

\* C30 witness: the signed-in user and another user have both voted on one
\* comparison, the delivered aggregate of it has total 2 with one approval
\* and one rejection, the signed-in user's own status on it is the
\* rejection, a second comparison has no vote, and the last call failed.
C30_Witness == \E c \in VoteComparisonIds, d \in VoteComparisonIds : c # d /\ ~IsNull(user) /\ AggregateOf(votes, c) = [approvals |-> 1, rejections |-> 1, total |-> 2, percentage |-> Quot(100, 2)] /\ votes = aggregateVotes(votesStore) /\ versionVoteKeyOf(c) \in DOMAIN userVotes /\ userVotes[versionVoteKeyOf(c)] = "reject" /\ VotersOf(d) = {} /\ ~IsNull(attempt) /\ attempt.outcome = "failed"

====
